---- MODULE Spec2Model ----
(***************************************************************************)
(* Domino Planner: the grid / history / selection engine of App.jsx (the   *)
(* second, current App component, src/src/App.jsx lines 738-2098) and the  *)
(* colour assignment engine of colorUtils (src/unnamed/part_002).          *)
(*                                                                         *)
(* Every React event handler is one atomic action: React flushes the state *)
(* updates of a discrete event before the next event is delivered, so a    *)
(* handler always reads the state its predecessor left.  Coordinates are   *)
(* 0-based as in the source; sequences are 1-based, hence the +1 in the    *)
(* accessors.                                                              *)
(***************************************************************************)
EXTENDS Integers, Sequences, FiniteSets, TLC

VARIABLES
  mounted,               \* the mount effects have run
  crashed,               \* a state updater threw during render: the tree is unmounted
  grid,                  \* useState grid
  history,               \* useState history
  historyIndex,          \* useState historyIndex
  historyIndexRef,       \* useRef mirror of historyIndex
  isUndoRedo,            \* useRef suppress flag
  rowInput, colInput,    \* useState pending dimensions
  selectedColor,         \* useState active colour
  mirrorMode,            \* useState mirror mode
  selection,             \* useState selection (None or Some(rect))
  isSelecting,           \* useState
  selectionStart,        \* useState (None or Some([row, col]))
  justFinishedSelection, \* useRef
  isDraggingSelection,   \* useState
  dragOffsetRef,         \* useRef [row, col]
  dragPreview,           \* useState (None or Some(rect))
  clipboard,             \* useState (None or Some(content))
  isDuplicateDragging,   \* useState
  duplicatePreview,      \* useState (None or Some(rect))
  duplicateClipboard,    \* useRef (None or Some([content, rows, cols]))
  isPainting,            \* useRef
  palette,               \* useState palette: entries [hex, quantity]
  pendingDecodes,        \* image imports whose file is still being read / decoded
  downloaded,            \* the project file saveGrid handed to the browser last (None or Some)
  editingColor,          \* useState of the first App component: the swatch being edited
  dist,                  \* a run of distributeColorsEvenly: its inputs, locals and result
  steps,                 \* number of handler invocations so far (bounded by MaxSteps)
  lastOp,                \* name of the handler that ran last
  gridBefore,            \* the live grid as the handler that ran last found it
  committedBefore,       \* the value of `committed` the handler that ran last found
  stepLimit,             \* step budget of the behaviour (fixed by the initial state)
  cancelPending,         \* Escape was pressed during a drag-move or a duplicate staging, and
                         \* only the pointer has moved since
  committed              \* the grids the last handler passed to saveToHistory, in call order

histVars == <<history, historyIndex, historyIndexRef, isUndoRedo>>
inputVars == <<rowInput, colInput>>
toolVars == <<selectedColor, mirrorMode>>
selVars == <<selection, isSelecting, selectionStart>>
dragVars == <<isDraggingSelection, dragOffsetRef, dragPreview>>
dupVars == <<isDuplicateDragging, duplicatePreview, duplicateClipboard>>
ioVars == <<palette, pendingDecodes, downloaded, editingColor>>

vars == <<mounted, crashed, grid, history, historyIndex, historyIndexRef, isUndoRedo,
          rowInput, colInput, selectedColor, mirrorMode, selection, isSelecting,
          selectionStart, justFinishedSelection, isDraggingSelection, dragOffsetRef,
          dragPreview, clipboard, isDuplicateDragging, duplicatePreview,
          duplicateClipboard, isPainting, palette, pendingDecodes, downloaded,
          editingColor, dist, steps, lastOp, gridBefore, committedBefore, stepLimit,
          cancelPending, committed>>

-----------------------------------------------------------------------------
(* Bounds of the exploration *)

\* handler invocations per behaviour
MaxSteps == 4
\* handler invocations per behaviour of a painting session, a paint-gesture session, a
\* structure session, a history session and a selection session
PaintSteps == 3
GestureSteps == 4
StructSteps == 3
HistSteps == 4
SelectSteps == 3
\* handler invocations per behaviour of an import session
ImportSteps == 4
\* handler invocations per behaviour of a session of loads, saves and palette imports
LoadSteps == 4
\* handler invocations per behaviour of a session of staging and cancelling
CancelSteps == 5
\* handler invocations per behaviour of a palette editing session
EditSteps == 5
\* a session that starts with a long history: handler invocations per behaviour, rows and
\* columns addressed (0..DeepPtr-1), typed dimensions (1..DeepSize), menu counts (1..DeepCount)
DeepSteps == 3
DeepPtr == 1
DeepSize == 1
DeepCount == 1
\* pointer events, header clicks and menu indexes address rows 0..MaxPtr-1, columns 0..MaxPtr-1
MaxPtr == 2
\* dimensions typed into the row / column inputs: 1..MaxSize
MaxSize == 2
\* counts offered by the insert / delete menus: 1..MaxCount
MaxCount == 2
\* image imports that may be waiting for their file at the same time
MaxPending == 2
\* distributeColorsEvenly: cells of a one-row raster, regular colours of a palette,
\* finite quantity of a palette colour
MaxCells == 11
MaxColours == 11
MaxQty == 2

-----------------------------------------------------------------------------
(* Values *)

CLEAR == "clear"
DISNEY == "disney"
\* the value JavaScript yields for an array hole or a missing element
UNDEFINED == "undefined"
\* null, as JSON.parse returns it
NULL == "null"
RED == "#a6271c"

MAX_HISTORY == 50

\* the quantity Infinity: larger than every count that occurs, and kept by a decrement
INFINITY == 1000000000
\* a quantity read back as null: the arithmetic and comparisons of the program take it as 0
NULL_QUANTITY == 0
\* maxRounds of distributeColorsEvenly
MAX_ROUNDS == 10

\* colours the user picks from the palette in the explored behaviours
PickedColors == {CLEAR, RED}
MirrorModes == {"none", "horizontal", "vertical", "both"}

\* a nullable JavaScript value: null is None, x is Some(x)
None == <<>>
Some(x) == <<x>>
IsNull(o) == o = <<>>
Val(o) == o[1]

Min(a, b) == IF a < b THEN a ELSE b
Max(a, b) == IF a > b THEN a ELSE b

DEFAULT_PALETTE ==
  << [hex |-> CLEAR, quantity |-> 102], [hex |-> DISNEY, quantity |-> 10],
     [hex |-> "#a6271c", quantity |-> 50], [hex |-> "#f98728", quantity |-> 50],
     [hex |-> "#fed82f", quantity |-> 100], [hex |-> "#fef064", quantity |-> 50],
     [hex |-> "#a1d170", quantity |-> 25], [hex |-> "#4fac3c", quantity |-> 50],
     [hex |-> "#31694d", quantity |-> 50], [hex |-> "#5db5bb", quantity |-> 100],
     [hex |-> "#92bfdb", quantity |-> 50], [hex |-> "#3e8acc", quantity |-> 25],
     [hex |-> "#1d55b1", quantity |-> 125], [hex |-> "#193582", quantity |-> 50],
     [hex |-> "#26224e", quantity |-> 50], [hex |-> "#7c6ca6", quantity |-> 25],
     [hex |-> "#824555", quantity |-> 25], [hex |-> "#c66488", quantity |-> 50],
     [hex |-> "#d399a7", quantity |-> 100], [hex |-> "#ffffff", quantity |-> 125],
     [hex |-> "#8b9086", quantity |-> 90], [hex |-> "#000000", quantity |-> 50] >>

-----------------------------------------------------------------------------
(* Grid helpers *)

createEmptyGrid(rows, cols) == [r \in 1..rows |-> [c \in 1..cols |-> CLEAR]]

\* grid.map(row => [...row]): a fresh array per row, holes read as undefined
cloneGrid(g) == [r \in 1..Len(g) |-> [c \in 1..Len(g[r]) |-> g[r][c]]]

\* grid.length and grid[0]?.length || 0
NumRows(g) == Len(g)
NumCols(g) == IF Len(g) = 0 THEN 0 ELSE Len(g[1])

\* prev[r]?.[c] ?? CLEAR
CellOrClear(g, r, c) ==
  IF r + 1 \in DOMAIN g /\ c + 1 \in DOMAIN g[r + 1] /\ g[r + 1][c + 1] # UNDEFINED
    THEN g[r + 1][c + 1]
    ELSE CLEAR

\* grid[r][c] where row r exists: undefined past the end of the row
CellAt(g, r, c) ==
  IF c + 1 \in DOMAIN g[r + 1] THEN g[r + 1][c + 1] ELSE UNDEFINED

\* newGrid[r][c] = v throws a TypeError when newGrid[r] is undefined
WriteThrows(g, w) == w[1] < 0 \/ w[1] >= Len(g)

\* a sequence of writes <<r, c, v>> to existing rows, applied in order: every row grows
\* to its largest written column, a cell holds the value of the last write to it
ApplyWrites(g, ws) ==
  [r \in 1..Len(g) |->
     LET mine == {i \in DOMAIN ws : ws[i][1] = r - 1 /\ ws[i][2] >= 0}
         len == IF mine = {} THEN Len(g[r])
                ELSE Max(Len(g[r]),
                         1 + ws[CHOOSE i \in mine : \A j \in mine : ws[j][2] <= ws[i][2]][2])
     IN [c \in 1..len |->
           LET hits == {i \in mine : ws[i][2] = c - 1}
           IN IF hits # {} THEN ws[CHOOSE i \in hits : \A j \in hits : j <= i][3]
              ELSE IF c <= Len(g[r]) THEN g[r][c]
              ELSE UNDEFINED]]

AnyThrows(g, ws) == \E i \in DOMAIN ws : WriteThrows(g, ws[i])

\* the cells of rows r1..r2, columns c1..c2 in the order of the nested for loops
RectCells(r1, r2, c1, c2) ==
  LET h == r2 - r1 + 1
      w == c2 - c1 + 1
  IN IF h <= 0 \/ w <= 0 THEN <<>>
     ELSE [k \in 1..(h * w) |-> <<r1 + ((k - 1) \div w), c1 + ((k - 1) % w)>>]

\* the length of the longest row
MaxRowLen(g) == IF Len(g) = 0 THEN 0 ELSE CHOOSE n \in {Len(g[r]) : r \in DOMAIN g} : \A r \in DOMAIN g : Len(g[r]) <= n

-----------------------------------------------------------------------------
(* History *)

\* variant of saveToHistory that evicts the oldest snapshot one entry before the log is full
saveToHistory_EvictsEarly(newGrid) ==
  IF isUndoRedo
    THEN /\ isUndoRedo' = FALSE
         /\ UNCHANGED <<history, historyIndex, historyIndexRef>>
    ELSE LET currentIndex == historyIndexRef
             pushed == Append(SubSeq(history, 1, currentIndex + 1), cloneGrid(newGrid))
             newHistory == IF Len(pushed) >= MAX_HISTORY THEN Tail(pushed) ELSE pushed
             newIndex == Min(currentIndex + 1, Len(newHistory) - 1)
         IN /\ history' = newHistory
            /\ historyIndex' = newIndex
            /\ historyIndexRef' = newIndex
            /\ UNCHANGED isUndoRedo

\* variant of saveToHistory that never evicts the oldest snapshot
saveToHistory_NoEviction(newGrid) ==
  IF isUndoRedo
    THEN /\ isUndoRedo' = FALSE
         /\ UNCHANGED <<history, historyIndex, historyIndexRef>>
    ELSE LET currentIndex == historyIndexRef
             pushed == Append(SubSeq(history, 1, currentIndex + 1), cloneGrid(newGrid))
             newIndex == Min(currentIndex + 1, MAX_HISTORY - 1)
         IN /\ history' = pushed
            /\ historyIndex' = newIndex
            /\ historyIndexRef' = newIndex
            /\ UNCHANGED isUndoRedo

\* variant of saveToHistory that advances the pointer without clamping it
saveToHistory_NoClamp(newGrid) ==
  IF isUndoRedo
    THEN /\ isUndoRedo' = FALSE
         /\ UNCHANGED <<history, historyIndex, historyIndexRef>>
    ELSE LET currentIndex == historyIndexRef
             pushed == Append(SubSeq(history, 1, currentIndex + 1), cloneGrid(newGrid))
             newHistory == IF Len(pushed) > MAX_HISTORY THEN Tail(pushed) ELSE pushed
             newIndex == currentIndex + 1
         IN /\ history' = newHistory
            /\ historyIndex' = newIndex
            /\ historyIndexRef' = newIndex
            /\ UNCHANGED isUndoRedo

\* App.jsx saveToHistory
saveToHistory(newGrid) ==
  IF isUndoRedo
    THEN /\ isUndoRedo' = FALSE
         /\ UNCHANGED <<history, historyIndex, historyIndexRef>>
    ELSE LET currentIndex == historyIndexRef
             pushed == Append(SubSeq(history, 1, currentIndex + 1), cloneGrid(newGrid))
             newHistory == IF Len(pushed) > MAX_HISTORY THEN Tail(pushed) ELSE pushed
             newIndex == Min(currentIndex + 1, MAX_HISTORY - 1)
         IN /\ history' = newHistory
            /\ historyIndex' = newIndex
            /\ historyIndexRef' = newIndex
            /\ UNCHANGED isUndoRedo

\* a handler that calls saveToHistory once / not at all
Commit(newGrid) == saveToHistory(newGrid) /\ committed' = <<newGrid>>
NoCommit == UNCHANGED histVars /\ committed' = <<>>

\* every handler: the component is mounted and alive, and the step budget is not used up
Handler(name) ==
  /\ mounted /\ ~crashed
  /\ steps < stepLimit
  /\ steps' = steps + 1
  /\ lastOp' = name
  /\ gridBefore' = grid
  /\ committedBefore' = committed
  /\ cancelPending' = IF name = "escape" THEN isDraggingSelection \/ isDuplicateDragging
                       ELSE name = "handleMouseEnter" /\ cancelPending
  /\ UNCHANGED <<mounted, stepLimit, dist>>

\* a state updater threw: React rethrows in the render phase and unmounts the tree
Crash ==
  /\ crashed' = TRUE
  /\ committed' = <<>>
  /\ UNCHANGED <<grid, histVars, inputVars, toolVars, selVars, justFinishedSelection,
                 dragVars, clipboard, dupVars, isPainting, ioVars>>

-----------------------------------------------------------------------------
(* Colour assignment engine (colorUtils) *)

\* hexToRgb for the colours of the model: the default palette and four near-primaries
HexTable ==
  ("#a6271c" :> <<166, 39, 28>>) @@ ("#f98728" :> <<249, 135, 40>>) @@
  ("#fed82f" :> <<254, 216, 47>>) @@ ("#fef064" :> <<254, 240, 100>>) @@
  ("#a1d170" :> <<161, 209, 112>>) @@ ("#4fac3c" :> <<79, 172, 60>>) @@
  ("#31694d" :> <<49, 105, 77>>) @@ ("#5db5bb" :> <<93, 181, 187>>) @@
  ("#92bfdb" :> <<146, 191, 219>>) @@ ("#3e8acc" :> <<62, 138, 204>>) @@
  ("#1d55b1" :> <<29, 85, 177>>) @@ ("#193582" :> <<25, 53, 130>>) @@
  ("#26224e" :> <<38, 34, 78>>) @@ ("#7c6ca6" :> <<124, 108, 166>>) @@
  ("#824555" :> <<130, 69, 85>>) @@ ("#c66488" :> <<198, 100, 136>>) @@
  ("#d399a7" :> <<211, 153, 167>>) @@ ("#ffffff" :> <<255, 255, 255>>) @@
  ("#8b9086" :> <<139, 144, 134>>) @@ ("#000000" :> <<0, 0, 0>>) @@
  ("#ff0000" :> <<255, 0, 0>>) @@ ("#0000ff" :> <<0, 0, 255>>) @@
  ("#fe0001" :> <<254, 0, 1>>) @@ ("#0000fe" :> <<0, 0, 254>>)

\* hexToRgb: None for a string that is no 6-digit hex colour
hexToRgb(hex) == IF hex \in DOMAIN HexTable THEN Some(HexTable[hex]) ELSE None

\* colorDistance, as 512 times the square of the value the source returns (the source
\* takes the square root of an exactly computed sum, so the order of distances is kept);
\* INFINITY when either colour does not parse
colorDistance(hex1, hex2) ==
  IF IsNull(hexToRgb(hex1)) \/ IsNull(hexToRgb(hex2)) THEN INFINITY
  ELSE LET rgb1 == Val(hexToRgb(hex1))
           rgb2 == Val(hexToRgb(hex2))
           rsum == rgb1[1] + rgb2[1]
           dr == rgb1[1] - rgb2[1]
           dg == rgb1[2] - rgb2[2]
           db == rgb1[3] - rgb2[3]
       IN (1024 + rsum) * dr * dr + 2048 * dg * dg + (1024 + 510 - rsum) * db * db

\* arr.sort((a, b) => key(a) - key(b)) of the indexes 1..Len(keys): stable, ascending
SortedIndexes(keys) ==
  LET n == Len(keys)
      Rank(i) == Cardinality({j \in 1..n : keys[j] < keys[i] \/ (keys[j] = keys[i] /\ j < i)})
  IN [k \in 1..n |-> CHOOSE i \in 1..n : Rank(i) = k - 1]

\* variant of getColorPreferences that leaves the candidates in palette order
getColorPreferences_Unsorted(pixelHex, pal) ==
  LET NonSpecial(i) == pal[i].hex # CLEAR /\ pal[i].hex # DISNEY
      idx == SelectSeq([i \in 1..Len(pal) |-> i], NonSpecial)
  IN [k \in DOMAIN idx |->
        [hex |-> pal[idx[k]].hex,
         distance |-> colorDistance(pixelHex, pal[idx[k]].hex)]]

\* getColorPreferences: the non-special palette entries ranked by distance
getColorPreferences(pixelHex, pal) ==
  LET NonSpecial(i) == pal[i].hex # CLEAR /\ pal[i].hex # DISNEY
      idx == SelectSeq([i \in 1..Len(pal) |-> i], NonSpecial)
      preferences == [k \in DOMAIN idx |->
                        [hex |-> pal[idx[k]].hex,
                         distance |-> colorDistance(pixelHex, pal[idx[k]].hex)]]
      order == SortedIndexes([k \in DOMAIN preferences |-> preferences[k].distance])
  IN [k \in DOMAIN order |-> preferences[order[k]]]

\* findClosestPaletteColor
findClosestPaletteColor(pixelHex, pal) ==
  LET cand == {i \in DOMAIN pal : /\ pal[i].hex # CLEAR /\ pal[i].hex # DISNEY
                                  /\ colorDistance(pixelHex, pal[i].hex) < INFINITY}
  IN IF cand = {} THEN CLEAR
     ELSE pal[CHOOSE i \in cand :
                \A j \in cand :
                  \/ colorDistance(pixelHex, pal[i].hex) < colorDistance(pixelHex, pal[j].hex)
                  \/ (colorDistance(pixelHex, pal[i].hex) = colorDistance(pixelHex, pal[j].hex)
                      /\ i <= j)].hex

\* the keys of the availability map
AvailableHexes(pal) == {pal[i].hex : i \in {j \in DOMAIN pal : pal[j].hex # CLEAR /\ pal[j].hex # DISNEY}}

\* availability[p.hex] = p.quantity: the last entry of a key wins
Availability(pal) ==
  [h \in AvailableHexes(pal) |->
     LET last == CHOOSE i \in DOMAIN pal :
                   pal[i].hex = h /\ \A j \in DOMAIN pal : pal[j].hex = h => j <= i
     IN pal[last].quantity]

\* variant of DistStart that ranks the palette for clear pixels as for every other pixel
DistStart_NoClearPass(pixelColors, pal) ==
  LET rows == Len(pixelColors)
      cols == IF rows = 0 THEN 0 ELSE Len(pixelColors[1])
      Pref(k) ==
        LET r == (k - 1) \div cols
            c == (k - 1) % cols
        IN [row |-> r, col |-> c,
            preferences |-> getColorPreferences(pixelColors[r + 1][c + 1], pal),
            assigned |-> None]
  IN [rows |-> rows, cols |-> cols,
      pixelPrefs |-> [k \in 1..(rows * cols) |-> Pref(k)],
      remainingAvailability |-> Availability(pal),
      round |-> 0]

\* the state of distributeColorsEvenly when the while loop is first tested
DistStart(pixelColors, pal) ==
  LET rows == Len(pixelColors)
      cols == IF rows = 0 THEN 0 ELSE Len(pixelColors[1])
      Pref(k) ==
        LET r == (k - 1) \div cols
            c == (k - 1) % cols
            pixelHex == pixelColors[r + 1][c + 1]
        IN IF pixelHex = CLEAR \/ pixelHex = "transparent"
             THEN [row |-> r, col |-> c,
                   preferences |-> <<[hex |-> CLEAR, distance |-> 0]>>,
                   assigned |-> Some(CLEAR)]
             ELSE [row |-> r, col |-> c,
                   preferences |-> getColorPreferences(pixelHex, pal),
                   assigned |-> None]
  IN [rows |-> rows, cols |-> cols,
      pixelPrefs |-> [k \in 1..(rows * cols) |-> Pref(k)],
      remainingAvailability |-> Availability(pal),
      round |-> 0]

\* remainingAvailability[hex] > 0 (undefined > 0 is false)
HasSupply(rem, hex) == hex \in DOMAIN rem /\ rem[hex] > 0

\* the index of the first preference with supply left, 0 when there is none
BestAvailable(preferences, rem) ==
  IF \E i \in DOMAIN preferences : HasSupply(rem, preferences[i].hex)
    THEN CHOOSE i \in DOMAIN preferences :
           /\ HasSupply(rem, preferences[i].hex)
           /\ \A j \in 1..(i - 1) : ~HasSupply(rem, preferences[j].hex)
    ELSE 0

\* pixel.preferences[0]?.hex || 'clear'
FirstPreference(preferences) == IF Len(preferences) = 0 THEN CLEAR ELSE preferences[1].hex

\* variant of DistContinues without the round cap
DistContinues_NoCap(st) ==
  \E k \in DOMAIN st.pixelPrefs : IsNull(st.pixelPrefs[k].assigned)

\* unassigned.some(p => p.assigned === null) && round < maxRounds
DistContinues(st) ==
  /\ \E k \in DOMAIN st.pixelPrefs : IsNull(st.pixelPrefs[k].assigned)
  /\ st.round < MAX_ROUNDS

\* variant of GroupWinners that serves nobody of an oversubscribed group
GroupWinners_AllOrNothing(group, distances, available) ==
  IF Len(group) <= available THEN {group[i] : i \in DOMAIN group} ELSE {}

\* variant of GroupWinners that serves an oversubscribed group in raster order
GroupWinners_RasterOrder(group, distances, available) ==
  IF Len(group) <= available THEN {group[i] : i \in DOMAIN group}
  ELSE {group[i] : i \in 1..available}

\* variant of GroupWinners that gives the colour to the whole group whatever the supply
GroupWinners_Everyone(group, distances, available) == {group[i] : i \in DOMAIN group}

\* the pixels of a colour group that receive the colour: all of them when the group fits
\* the supply, else the first `available` of the group sorted by distance
GroupWinners(group, distances, available) ==
  IF Len(group) <= available THEN {group[i] : i \in DOMAIN group}
  ELSE LET order == SortedIndexes(distances)
       IN {group[order[i]] : i \in 1..available}

\* one iteration of the while loop
DistRound(st) ==
  LET px == st.pixelPrefs
      rem == st.remainingAvailability
      open == SelectSeq([k \in 1..Len(px) |-> k], LAMBDA k : IsNull(px[k].assigned))
      best == [k \in DOMAIN px |->
                 IF IsNull(px[k].assigned) THEN BestAvailable(px[k].preferences, rem) ELSE 0]
      Group(hex) == SelectSeq(open, LAMBDA k : best[k] > 0 /\ px[k].preferences[best[k]].hex = hex)
      winners == [hex \in DOMAIN rem |->
                    LET group == Group(hex)
                    IN IF Len(group) = 0 THEN {}
                       ELSE GroupWinners(group,
                              [i \in DOMAIN group |-> px[group[i]].preferences[best[group[i]]].distance],
                              rem[hex])]
      Assigned(k) ==
        IF ~IsNull(px[k].assigned) THEN px[k].assigned
        ELSE IF best[k] = 0 THEN Some(FirstPreference(px[k].preferences))
        ELSE IF k \in winners[px[k].preferences[best[k]].hex]
               THEN Some(px[k].preferences[best[k]].hex)
               ELSE None
  IN [st EXCEPT
        !.round = @ + 1,
        !.pixelPrefs = [k \in DOMAIN px |-> [px[k] EXCEPT !.assigned = Assigned(k)]],
        !.remainingAvailability =
           [hex \in DOMAIN rem |->
              IF rem[hex] = INFINITY THEN INFINITY
              ELSE rem[hex] - Cardinality(winners[hex])]]

RECURSIVE DistLoop(_)
DistLoop(st) == IF DistContinues(st) THEN DistLoop(DistRound(st)) ELSE st

\* the output grid: pixel.assigned || pixel.preferences[0]?.hex || 'clear'
DistResult(st) ==
  [r \in 1..st.rows |->
     [c \in 1..st.cols |->
        LET pixel == st.pixelPrefs[(r - 1) * st.cols + c]
        IN IF IsNull(pixel.assigned) THEN FirstPreference(pixel.preferences)
           ELSE Val(pixel.assigned)]]

distributeColorsEvenly(pixelColors, pal) == DistResult(DistLoop(DistStart(pixelColors, pal)))

\* no call of distributeColorsEvenly in progress
DistIdle ==
  [pc |-> "idle", pixelColors |-> <<>>, palette |-> <<>>,
   run |-> DistStart(<<>>, <<>>), result |-> <<>>]

-----------------------------------------------------------------------------
(* Initial state and mount effect *)

\* the state after the first render, with a budget of `limit` handler invocations
Session(limit) ==
  /\ mounted = FALSE
  /\ crashed = FALSE
  /\ grid = createEmptyGrid(5, 8)
  /\ history = <<>>
  /\ historyIndex = -1
  /\ historyIndexRef = -1
  /\ isUndoRedo = FALSE
  /\ rowInput = 5
  /\ colInput = 8
  /\ selectedColor = CLEAR
  /\ mirrorMode = "none"
  /\ selection = None
  /\ isSelecting = FALSE
  /\ selectionStart = None
  /\ justFinishedSelection = FALSE
  /\ isDraggingSelection = FALSE
  /\ dragOffsetRef = [row |-> 0, col |-> 0]
  /\ dragPreview = None
  /\ clipboard = None
  /\ isDuplicateDragging = FALSE
  /\ duplicatePreview = None
  /\ duplicateClipboard = None
  /\ isPainting = FALSE
  /\ palette = DEFAULT_PALETTE
  /\ pendingDecodes = <<>>
  /\ downloaded = None
  /\ editingColor = None
  /\ steps = 0
  /\ lastOp = "init"
  /\ gridBefore = createEmptyGrid(5, 8)
  /\ committedBefore = <<>>
  /\ stepLimit = limit
  /\ cancelPending = FALSE
  /\ committed = <<>>

Init == Session(MaxSteps) /\ dist = DistIdle

\* useEffect(() => { if (history.length === 0) ... }, [])
InitHistory ==
  /\ ~mounted
  /\ mounted' = TRUE
  /\ IF Len(history) = 0
       THEN /\ history' = <<cloneGrid(grid)>>
            /\ historyIndex' = 0
            /\ historyIndexRef' = 0
       ELSE UNCHANGED <<history, historyIndex, historyIndexRef>>
  /\ lastOp' = "mount"
  /\ committed' = <<>>
  /\ UNCHANGED <<crashed, ioVars, grid, isUndoRedo, inputVars, toolVars, selVars,
                 justFinishedSelection, dragVars, clipboard, dupVars, isPainting, steps,
                 stepLimit, cancelPending, dist, gridBefore, committedBefore>>

-----------------------------------------------------------------------------
(* Undo / redo *)

\* variant of undo that raises the suppress flag whether or not it moves the pointer
undo_FlagAlways ==
  /\ Handler("undo")
  /\ committed' = <<>>
  /\ isUndoRedo' = TRUE
  /\ IF historyIndex > 0
       THEN LET newIndex == historyIndex - 1
            IN /\ historyIndex' = newIndex
               /\ historyIndexRef' = newIndex
               /\ grid' = cloneGrid(history[newIndex + 1])
               /\ UNCHANGED history
       ELSE UNCHANGED <<grid, history, historyIndex, historyIndexRef>>
  /\ UNCHANGED <<crashed, ioVars, inputVars, toolVars, selVars, justFinishedSelection,
                 dragVars, clipboard, dupVars, isPainting>>

undo ==
  /\ Handler("undo")
  /\ committed' = <<>>
  /\ IF historyIndex > 0
       THEN LET newIndex == historyIndex - 1
            IN /\ isUndoRedo' = TRUE
               /\ historyIndex' = newIndex
               /\ historyIndexRef' = newIndex
               /\ grid' = cloneGrid(history[newIndex + 1])
               /\ UNCHANGED history
       ELSE UNCHANGED <<grid, histVars>>
  /\ UNCHANGED <<crashed, ioVars, inputVars, toolVars, selVars, justFinishedSelection,
                 dragVars, clipboard, dupVars, isPainting>>

redo ==
  /\ Handler("redo")
  /\ committed' = <<>>
  /\ IF historyIndex < Len(history) - 1
       THEN LET newIndex == historyIndex + 1
            IN /\ isUndoRedo' = TRUE
               /\ historyIndex' = newIndex
               /\ historyIndexRef' = newIndex
               /\ grid' = cloneGrid(history[newIndex + 1])
               /\ UNCHANGED history
       ELSE UNCHANGED <<grid, histVars>>
  /\ UNCHANGED <<crashed, ioVars, inputVars, toolVars, selVars, justFinishedSelection,
                 dragVars, clipboard, dupVars, isPainting>>

-----------------------------------------------------------------------------
(* Tool setters *)

\* onSelectColor={setSelectedColor}
SetSelectedColor(color) ==
  /\ Handler("setSelectedColor")
  /\ selectedColor' = color
  /\ NoCommit
  /\ UNCHANGED <<crashed, ioVars, grid, inputVars, mirrorMode, selVars, justFinishedSelection,
                 dragVars, clipboard, dupVars, isPainting>>

\* onMirrorModeChange={setMirrorMode}
SetMirrorMode(mode) ==
  /\ Handler("setMirrorMode")
  /\ mirrorMode' = mode
  /\ NoCommit
  /\ UNCHANGED <<crashed, ioVars, grid, inputVars, selectedColor, selVars, justFinishedSelection,
                 dragVars, clipboard, dupVars, isPainting>>

-----------------------------------------------------------------------------
(* Whole-grid operations *)

\* variant of the resize that copies nothing from the previous grid
ResizedGrid_AllClear(prev, newRows, newCols) ==
  [r \in 1..newRows |-> [c \in 1..newCols |-> CLEAR]]

\* the grid applyGridSize builds
ResizedGrid(prev, newRows, newCols) ==
  [r \in 1..newRows |-> [c \in 1..newCols |-> CellOrClear(prev, r - 1, c - 1)]]

\* GridControls: onRowInputChange(value); onApplySize(value, undefined), and the same for columns
applyGridSize(overrideRows, overrideCols) ==
  /\ Handler("applyGridSize")
  /\ rowInput' = IF IsNull(overrideRows) THEN rowInput ELSE Val(overrideRows)
  /\ colInput' = IF IsNull(overrideCols) THEN colInput ELSE Val(overrideCols)
  /\ LET newRows == Max(1, IF IsNull(overrideRows) THEN rowInput ELSE Val(overrideRows))
         newCols == Max(1, IF IsNull(overrideCols) THEN colInput ELSE Val(overrideCols))
     IN IF newRows = NumRows(grid) /\ newCols = NumCols(grid)
          THEN UNCHANGED grid /\ NoCommit
          ELSE /\ grid' = ResizedGrid(grid, newRows, newCols)
               /\ Commit(ResizedGrid(grid, newRows, newCols))
  /\ UNCHANGED <<crashed, ioVars, toolVars, selVars, justFinishedSelection, dragVars, clipboard,
                 dupVars, isPainting>>

clearGrid ==
  /\ Handler("clearGrid")
  /\ LET newGrid == [r \in 1..Len(grid) |-> [c \in 1..Len(grid[r]) |-> CLEAR]]
     IN grid' = newGrid /\ Commit(newGrid)
  /\ UNCHANGED <<crashed, ioVars, inputVars, toolVars, selVars, justFinishedSelection, dragVars,
                 clipboard, dupVars, isPainting>>

\* for (col = 0; col < newGrid[row].length; col++) newGrid[row][col] = selectedColor
fillRow(row) ==
  /\ Handler("fillRow")
  /\ row < NumRows(grid)
  /\ LET newGrid == [grid EXCEPT ![row + 1] = [c \in 1..Len(@) |-> selectedColor]]
     IN grid' = newGrid /\ Commit(newGrid)
  /\ UNCHANGED <<crashed, ioVars, inputVars, toolVars, selVars, justFinishedSelection, dragVars,
                 clipboard, dupVars, isPainting>>

\* for (row = 0; row < newGrid.length; row++) newGrid[row][col] = selectedColor
fillColumn(col) ==
  /\ Handler("fillColumn")
  /\ col < NumCols(grid)
  /\ LET newGrid == ApplyWrites(grid, [r \in 1..Len(grid) |-> <<r - 1, col, selectedColor>>])
     IN grid' = newGrid /\ Commit(newGrid)
  /\ UNCHANGED <<crashed, ioVars, inputVars, toolVars, selVars, justFinishedSelection, dragVars,
                 clipboard, dupVars, isPainting>>

-----------------------------------------------------------------------------
(* Painting *)

Rect(r1, c1, r2, c2) == [startRow |-> r1, startCol |-> c1, endRow |-> r2, endCol |-> c2]

\* r >= 0 && r < newGrid.length && c >= 0 && c < newGrid[0].length
InRange(g, r, c) == r >= 0 /\ r < Len(g) /\ c >= 0 /\ c < Len(g[1])

\* the writes of ws that pass the in-range test of the loop body
FilterInRange(g, ws) ==
  LET Test(w) == InRange(g, w[1], w[2]) IN SelectSeq(ws, Test)

\* DominoGrid renders one cell per element of each row: the cells pointer events can name
CellRendered(g, r, c) ==
  /\ r >= 0 /\ r < Len(g)
  /\ c >= 0 /\ c < Len(g[r + 1])
  /\ g[r + 1][c + 1] # UNDEFINED

\* variant of getMirroredPositions whose horizontal mirror is one column off
getMirroredPositions_OffByOne(row, col) ==
  LET rows == NumRows(grid)
      cols == NumCols(grid)
  IN <<<<row, col>>>>
     \o (IF mirrorMode = "horizontal" \/ mirrorMode = "both"
           THEN <<<<row, cols - col>>>> ELSE <<>>)
     \o (IF mirrorMode = "vertical" \/ mirrorMode = "both"
           THEN <<<<rows - 1 - row, col>>>> ELSE <<>>)
     \o (IF mirrorMode = "both"
           THEN <<<<rows - 1 - row, cols - col>>>> ELSE <<>>)

getMirroredPositions(row, col) ==
  LET rows == NumRows(grid)
      cols == NumCols(grid)
  IN <<<<row, col>>>>
     \o (IF mirrorMode = "horizontal" \/ mirrorMode = "both"
           THEN <<<<row, cols - 1 - col>>>> ELSE <<>>)
     \o (IF mirrorMode = "vertical" \/ mirrorMode = "both"
           THEN <<<<rows - 1 - row, col>>>> ELSE <<>>)
     \o (IF mirrorMode = "both"
           THEN <<<<rows - 1 - row, cols - 1 - col>>>> ELSE <<>>)

\* the grid paintCell installs; it records nothing in the history
paintCell(row, col) ==
  LET positions == getMirroredPositions(row, col)
      ws == [i \in DOMAIN positions |-> <<positions[i][1], positions[i][2], selectedColor>>]
  IN ApplyWrites(grid, FilterInRange(grid, ws))

-----------------------------------------------------------------------------
(* Selection, clipboard *)

\* the content of rows r1..r2, columns c1..c2 read with grid[r][c]
ExtractCells(g, r1, c1, r2, c2) ==
  [i \in 1..(r2 - r1 + 1) |-> [j \in 1..(c2 - c1 + 1) |-> CellAt(g, r1 + i - 1, c1 + j - 1)]]

\* grid[r][c] throws a TypeError when grid[r] is undefined
ReadThrows(g, r1, r2) == \E r \in r1..r2 : r < 0 \/ r >= Len(g)

\* content written with its top-left cell at (r0, c0), in loop order
ContentWrites(content, r0, c0) ==
  LET h == Len(content)
      w == IF h = 0 THEN 0 ELSE Len(content[1])
  IN IF h = 0 \/ w = 0 THEN <<>>
     ELSE [k \in 1..(h * w) |->
             <<r0 + ((k - 1) \div w), c0 + ((k - 1) % w),
               content[((k - 1) \div w) + 1][((k - 1) % w) + 1]>>]

\* every cell of the rectangle set to v, in loop order
RectWrites(rect, v) ==
  LET cells == RectCells(rect.startRow, rect.endRow, rect.startCol, rect.endCol)
  IN [k \in DOMAIN cells |-> <<cells[k][1], cells[k][2], v>>]

isCellInSelection(row, col) ==
  IF IsNull(selection) THEN FALSE
  ELSE /\ row >= Val(selection).startRow /\ row <= Val(selection).endRow
       /\ col >= Val(selection).startCol /\ col <= Val(selection).endCol

\* Ctrl+C with a selection, and the Copy button
copySelection ==
  /\ Handler("copySelection")
  /\ NoCommit
  /\ IF IsNull(selection) THEN UNCHANGED clipboard
     ELSE LET s == Val(selection)
          IN IF ReadThrows(grid, s.startRow, s.endRow)
               THEN UNCHANGED clipboard   \* the handler throws before setClipboard
               ELSE clipboard' =
                      Some(ExtractCells(grid, s.startRow, s.startCol, s.endRow, s.endCol))
  /\ UNCHANGED <<crashed, ioVars, grid, inputVars, toolVars, selVars, justFinishedSelection,
                 dragVars, dupVars, isPainting>>

\* variant of the paste test that omits the column bound
PasteInRange_RowOnly(g, r, c) == r < Len(g)

\* targetR < newGrid.length && targetC < newGrid[0].length
PasteInRange(g, r, c) == r < Len(g) /\ c < Len(g[1])

\* Ctrl+V with a clipboard, and the Paste button
pasteClipboard ==
  /\ Handler("pasteClipboard")
  /\ IF IsNull(clipboard) \/ IsNull(selection)
       THEN UNCHANGED grid /\ NoCommit
       ELSE LET ws == ContentWrites(Val(clipboard), Val(selection).startRow,
                                    Val(selection).startCol)
                Test(w) == PasteInRange(grid, w[1], w[2])
                newGrid == ApplyWrites(grid, SelectSeq(ws, Test))
            IN grid' = newGrid /\ Commit(newGrid)
  /\ UNCHANGED <<crashed, ioVars, inputVars, toolVars, selVars, justFinishedSelection,
                 dragVars, clipboard, dupVars, isPainting>>

\* a handler whose updater writes ws without a range test
UnguardedWrites(ws) ==
  IF AnyThrows(grid, ws)
    THEN Crash
    ELSE /\ grid' = ApplyWrites(grid, ws)
         /\ Commit(ApplyWrites(grid, ws))
         /\ UNCHANGED <<crashed, ioVars, inputVars, toolVars, selVars, justFinishedSelection,
                        dragVars, clipboard, dupVars, isPainting>>

\* Shift+F with a selection, the Fill button, and a swatch of the fill popup
fillSelection ==
  /\ Handler("fillSelection")
  /\ IF IsNull(selection)
       THEN /\ NoCommit
            /\ UNCHANGED <<crashed, ioVars, grid, inputVars, toolVars, selVars,
                           justFinishedSelection, dragVars, clipboard, dupVars, isPainting>>
       ELSE UnguardedWrites(RectWrites(Val(selection), selectedColor))

\* the selection menu's "clear section"
clearSectionWithClear ==
  /\ Handler("clearSectionWithClear")
  /\ IF IsNull(selection)
       THEN /\ NoCommit
            /\ UNCHANGED <<crashed, ioVars, grid, inputVars, toolVars, selVars,
                           justFinishedSelection, dragVars, clipboard, dupVars, isPainting>>
       ELSE UnguardedWrites(RectWrites(Val(selection), CLEAR))

\* variant of clearSelection that empties the clipboard with the selection
clearSelection_DropsClipboard ==
  /\ Handler("clearSelection")
  /\ selection' = None
  /\ clipboard' = None
  /\ NoCommit
  /\ UNCHANGED <<crashed, ioVars, grid, inputVars, toolVars, isSelecting, selectionStart,
                 justFinishedSelection, dragVars, dupVars, isPainting>>

\* the Clear Selection button
clearSelection ==
  /\ Handler("clearSelection")
  /\ selection' = None
  /\ NoCommit
  /\ UNCHANGED <<crashed, ioVars, grid, inputVars, toolVars, isSelecting, selectionStart,
                 justFinishedSelection, dragVars, clipboard, dupVars, isPainting>>

\* the cells replaceColor rewrites: those equal to sourceColor, in the bounds or everywhere
ReplaceWrites(g, sourceColor, targetColor, bounds) ==
  LET cells == IF IsNull(bounds)
                 THEN RectCells(0, Len(g) - 1, 0, MaxRowLen(g) - 1)
                 ELSE RectCells(Val(bounds).startRow, Val(bounds).endRow,
                                Val(bounds).startCol, Val(bounds).endCol)
      Hit(p) == /\ p[1] >= 0 /\ p[1] < Len(g)
                /\ p[2] + 1 \in DOMAIN g[p[1] + 1]
                /\ g[p[1] + 1][p[2] + 1] = sourceColor
      hits == SelectSeq(cells, Hit)
  IN [k \in DOMAIN hits |-> <<hits[k][1], hits[k][2], targetColor>>]

\* ColorPalette: onReplaceColor(sourceColor, targetColor, selection)
replaceColor(sourceColor, targetColor, bounds) ==
  /\ Handler("replaceColor")
  /\ IF ~IsNull(bounds) /\ ReadThrows(grid, Val(bounds).startRow, Val(bounds).endRow)
       THEN Crash
       ELSE LET newGrid == ApplyWrites(grid, ReplaceWrites(grid, sourceColor, targetColor, bounds))
            IN /\ grid' = newGrid
               /\ Commit(newGrid)
               /\ UNCHANGED <<crashed, ioVars, inputVars, toolVars, selVars, justFinishedSelection,
                              dragVars, clipboard, dupVars, isPainting>>

-----------------------------------------------------------------------------
(* Pointer gestures: paint, select, drag-move, duplicate *)

\* variant of MovedGrid that places the content first and clears the source afterwards
MovedGrid_PlaceThenClear(g, sel, preview) ==
  LET selectedCells ==
        [i \in 1..(sel.endRow - sel.startRow + 1) |->
           [j \in 1..(sel.endCol - sel.startCol + 1) |->
              CellOrClear(g, sel.startRow + i - 1, sel.startCol + j - 1)]]
      placed == ApplyWrites(g,
                  FilterInRange(g, ContentWrites(selectedCells, preview.startRow,
                                                 preview.startCol)))
  IN ApplyWrites(placed, FilterInRange(placed, RectWrites(sel, CLEAR)))

\* the grid endDragSelection installs: source cleared, then content placed at the preview
MovedGrid(g, sel, preview) ==
  LET selectedCells ==
        [i \in 1..(sel.endRow - sel.startRow + 1) |->
           [j \in 1..(sel.endCol - sel.startCol + 1) |->
              CellOrClear(g, sel.startRow + i - 1, sel.startCol + j - 1)]]
      cleared == ApplyWrites(g, FilterInRange(g, RectWrites(sel, CLEAR)))
  IN ApplyWrites(cleared,
       FilterInRange(cleared, ContentWrites(selectedCells, preview.startRow, preview.startCol)))

\* the grid a duplicate placement installs
PlacedGrid(g, content, preview) ==
  ApplyWrites(g, FilterInRange(g, ContentWrites(content, preview.startRow, preview.startCol)))

\* onMouseDown of a grid cell
handleMouseDown(row, col, shiftKey) ==
  /\ Handler("handleMouseDown")
  /\ CellRendered(grid, row, col)
  /\ IF isDuplicateDragging /\ ~IsNull(duplicatePreview) /\ ~IsNull(duplicateClipboard)
       THEN \* place the duplicate
            LET newGrid == PlacedGrid(grid, Val(duplicateClipboard).content,
                                      Val(duplicatePreview))
            IN /\ grid' = newGrid
               /\ Commit(newGrid)
               /\ isDuplicateDragging' = FALSE
               /\ duplicatePreview' = None
               /\ UNCHANGED <<duplicateClipboard, selVars, dragVars, isPainting>>
       ELSE IF shiftKey
         THEN \* handleSelectionStart
              /\ isSelecting' = TRUE
              /\ selectionStart' = Some([row |-> row, col |-> col])
              /\ selection' = Some(Rect(row, col, row, col))
              /\ NoCommit
              /\ UNCHANGED <<grid, dragVars, dupVars, isPainting>>
       ELSE IF isCellInSelection(row, col)
         THEN \* startDragSelection
              /\ isDraggingSelection' = TRUE
              /\ dragOffsetRef' = [row |-> row - Val(selection).startRow,
                                   col |-> col - Val(selection).startCol]
              /\ dragPreview' = Some(Rect(Val(selection).startRow, Val(selection).startCol,
                                          Val(selection).endRow, Val(selection).endCol))
              /\ NoCommit
              /\ UNCHANGED <<grid, selVars, dupVars, isPainting>>
         ELSE \* start painting
              /\ selection' = None
              /\ isPainting' = TRUE
              /\ grid' = paintCell(row, col)
              /\ NoCommit
              /\ UNCHANGED <<isSelecting, selectionStart, dragVars, dupVars>>
  /\ UNCHANGED <<crashed, ioVars, inputVars, toolVars, justFinishedSelection, clipboard>>

\* onMouseEnter of a grid cell
handleMouseEnter(row, col) ==
  /\ Handler("handleMouseEnter")
  /\ CellRendered(grid, row, col)
  /\ NoCommit
  /\ IF isDuplicateDragging /\ ~IsNull(duplicateClipboard)
       THEN /\ duplicatePreview' =
                 Some(Rect(row, col, row + Val(duplicateClipboard).rows - 1,
                           col + Val(duplicateClipboard).cols - 1))
            /\ UNCHANGED <<grid, selection, dragPreview>>
       ELSE /\ IF isDraggingSelection
                 THEN \* moveDragSelection
                      /\ IF IsNull(selection) THEN UNCHANGED dragPreview
                         ELSE LET newStartRow == row - dragOffsetRef.row
                                  newStartCol == col - dragOffsetRef.col
                                  height == Val(selection).endRow - Val(selection).startRow
                                  width == Val(selection).endCol - Val(selection).startCol
                              IN dragPreview' = Some(Rect(newStartRow, newStartCol,
                                                          newStartRow + height,
                                                          newStartCol + width))
                      /\ UNCHANGED grid
                 ELSE /\ grid' = IF isPainting THEN paintCell(row, col) ELSE grid
                      /\ UNCHANGED dragPreview
            /\ IF isSelecting /\ ~IsNull(selectionStart)
                 THEN \* handleSelectionMove
                      selection' = Some(Rect(Min(Val(selectionStart).row, row),
                                             Min(Val(selectionStart).col, col),
                                             Max(Val(selectionStart).row, row),
                                             Max(Val(selectionStart).col, col)))
                 ELSE UNCHANGED selection
            /\ UNCHANGED duplicatePreview
  /\ UNCHANGED <<crashed, ioVars, inputVars, toolVars, isSelecting, selectionStart,
                 justFinishedSelection, isDraggingSelection, dragOffsetRef, clipboard,
                 isDuplicateDragging, duplicateClipboard, isPainting>>

\* variant of handleMouseUp that records nothing at the end of a paint gesture
handleMouseUp_NoCommit ==
  /\ Handler("handleMouseUp")
  /\ IF isDraggingSelection
       THEN \* endDragSelection
            /\ IF IsNull(selection) \/ IsNull(dragPreview)
                 THEN UNCHANGED <<grid, selection>> /\ NoCommit
                 ELSE /\ grid' = MovedGrid(grid, Val(selection), Val(dragPreview))
                      /\ Commit(MovedGrid(grid, Val(selection), Val(dragPreview)))
                      /\ selection' =
                           Some(Rect(Max(0, Val(dragPreview).startRow),
                                     Max(0, Val(dragPreview).startCol),
                                     Min(Len(grid) - 1, Val(dragPreview).endRow),
                                     Min(Len(grid[1]) - 1, Val(dragPreview).endCol)))
            /\ isDraggingSelection' = FALSE
            /\ dragPreview' = None
            /\ justFinishedSelection' = TRUE
       ELSE /\ NoCommit
            /\ justFinishedSelection' = (justFinishedSelection \/ isSelecting)
            /\ UNCHANGED <<grid, selection, isDraggingSelection, dragPreview>>
  /\ isPainting' = FALSE
  /\ isSelecting' = FALSE
  /\ UNCHANGED <<crashed, ioVars, inputVars, toolVars, selectionStart, dragOffsetRef, clipboard,
                 dupVars>>

\* onMouseUp and onMouseLeave of the app element
handleMouseUp ==
  /\ Handler("handleMouseUp")
  /\ IF isDraggingSelection
       THEN \* endDragSelection
            /\ IF IsNull(selection) \/ IsNull(dragPreview)
                 THEN UNCHANGED <<grid, selection>> /\ NoCommit
                 ELSE /\ grid' = MovedGrid(grid, Val(selection), Val(dragPreview))
                      /\ Commit(MovedGrid(grid, Val(selection), Val(dragPreview)))
                      /\ selection' =
                           Some(Rect(Max(0, Val(dragPreview).startRow),
                                     Max(0, Val(dragPreview).startCol),
                                     Min(Len(grid) - 1, Val(dragPreview).endRow),
                                     Min(Len(grid[1]) - 1, Val(dragPreview).endCol)))
            /\ isDraggingSelection' = FALSE
            /\ dragPreview' = None
            /\ justFinishedSelection' = TRUE
       ELSE /\ IF isPainting
                 THEN Commit(grid)
                 ELSE NoCommit
            /\ justFinishedSelection' = (justFinishedSelection \/ isSelecting)
            /\ UNCHANGED <<grid, selection, isDraggingSelection, dragPreview>>
  /\ isPainting' = FALSE
  /\ isSelecting' = FALSE
  /\ UNCHANGED <<crashed, ioVars, inputVars, toolVars, selectionStart, dragOffsetRef, clipboard,
                 dupVars>>

\* onClick of the app element; onBackground: the target is no cell, button, input or menu
handleAppClick(onBackground) ==
  /\ Handler("handleAppClick")
  /\ NoCommit
  /\ IF justFinishedSelection
       THEN justFinishedSelection' = FALSE /\ UNCHANGED selection
       ELSE /\ selection' = IF onBackground THEN None ELSE selection
            /\ UNCHANGED justFinishedSelection
  /\ UNCHANGED <<crashed, ioVars, grid, inputVars, toolVars, isSelecting, selectionStart,
                 dragVars, clipboard, dupVars, isPainting>>

\* handleKeyDown, Shift+D: stage a duplicate of the selection
startDuplicate ==
  /\ Handler("startDuplicate")
  /\ NoCommit
  /\ IF IsNull(selection) \/ isDuplicateDragging
       THEN UNCHANGED dupVars
       ELSE LET s == Val(selection)
            IN IF ReadThrows(grid, s.startRow, s.endRow)
                 THEN UNCHANGED dupVars   \* the handler throws before any update
                 ELSE /\ duplicateClipboard' =
                           Some([content |-> ExtractCells(grid, s.startRow, s.startCol,
                                                          s.endRow, s.endCol),
                                 rows |-> s.endRow - s.startRow + 1,
                                 cols |-> s.endCol - s.startCol + 1])
                      /\ isDuplicateDragging' = TRUE
                      /\ duplicatePreview' =
                           Some(Rect(s.startRow, s.startCol, s.endRow, s.endCol))
  /\ UNCHANGED <<crashed, ioVars, grid, inputVars, toolVars, selVars, justFinishedSelection,
                 dragVars, clipboard, isPainting>>

\* handleKeyDown, Escape
escape ==
  /\ Handler("escape")
  /\ NoCommit
  /\ selection' = None
  /\ isDuplicateDragging' = FALSE
  /\ duplicatePreview' = None
  /\ UNCHANGED <<crashed, ioVars, grid, inputVars, toolVars, isSelecting, selectionStart,
                 justFinishedSelection, dragVars, clipboard, duplicateClipboard, isPainting>>

-----------------------------------------------------------------------------
(* Row and column operations *)

\* arr.splice(at, 0, x) repeated count times: at is clamped to the length
InsertAt(seq, at, count, x) ==
  LET k == Min(Max(at, 0), Len(seq))
  IN SubSeq(seq, 1, k) \o [i \in 1..count |-> x] \o SubSeq(seq, k + 1, Len(seq))

\* arr.filter((_, i) => i < startIndex || i >= startIndex + n)
RemoveRange(seq, startIndex, n) ==
  LET Keep == {i \in 1..Len(seq) : (i - 1) < startIndex \/ (i - 1) >= startIndex + n}
      F[i \in 0..Len(seq)] ==
        IF i = 0 THEN <<>>
        ELSE IF i \in Keep THEN Append(F[i - 1], seq[i]) ELSE F[i - 1]
  IN F[Len(seq)]

addRows(index, position, count) ==
  /\ Handler("addRows")
  /\ index < NumRows(grid)
  /\ LET cols == NumCols(grid)
         insertIndex == IF position = "above" THEN index ELSE index + 1
         newGrid == InsertAt(grid, insertIndex, count, [c \in 1..cols |-> CLEAR])
     IN /\ grid' = newGrid
        /\ rowInput' = Len(newGrid)
        /\ Commit(newGrid)
  /\ UNCHANGED <<crashed, ioVars, colInput, toolVars, selVars, justFinishedSelection, dragVars,
                 clipboard, dupVars, isPainting>>

addColumns(index, position, count) ==
  /\ Handler("addColumns")
  /\ index < NumCols(grid)
  /\ LET insertIndex == IF position = "left" THEN index ELSE index + 1
         newGrid == [r \in 1..Len(grid) |-> InsertAt(grid[r], insertIndex, count, CLEAR)]
     IN /\ grid' = newGrid
        /\ colInput' = NumCols(newGrid)
        /\ Commit(newGrid)
  /\ UNCHANGED <<crashed, ioVars, rowInput, toolVars, selVars, justFinishedSelection, dragVars,
                 clipboard, dupVars, isPainting>>

deleteRow(index) ==
  /\ Handler("deleteRow")
  /\ index < NumRows(grid)
  /\ IF Len(grid) <= 1
       THEN UNCHANGED <<grid, rowInput>> /\ NoCommit
       ELSE LET newGrid == RemoveRange(grid, index, 1)
            IN /\ grid' = newGrid
               /\ rowInput' = Len(newGrid)
               /\ Commit(newGrid)
  /\ UNCHANGED <<crashed, ioVars, colInput, toolVars, selVars, justFinishedSelection, dragVars,
                 clipboard, dupVars, isPainting>>

deleteColumn(index) ==
  /\ Handler("deleteColumn")
  /\ index < NumCols(grid)
  /\ IF NumCols(grid) <= 1
       THEN UNCHANGED <<grid, colInput>> /\ NoCommit
       ELSE LET newGrid == [r \in 1..Len(grid) |-> RemoveRange(grid[r], index, 1)]
            IN /\ grid' = newGrid
               /\ colInput' = NumCols(newGrid)
               /\ Commit(newGrid)
  /\ UNCHANGED <<crashed, ioVars, rowInput, toolVars, selVars, justFinishedSelection, dragVars,
                 clipboard, dupVars, isPainting>>

\* variant of deleteRows that does not cap the count
deleteRows_Uncapped(startIndex, count) ==
  /\ Handler("deleteRows")
  /\ startIndex < NumRows(grid)
  /\ LET maxDeletable == Len(grid) - 1
         actualCount == count
     IN IF actualCount <= 0
          THEN UNCHANGED <<grid, rowInput, selection>> /\ NoCommit
          ELSE LET newGrid == RemoveRange(grid, startIndex, actualCount)
               IN /\ grid' = newGrid
                  /\ rowInput' = Len(newGrid)
                  /\ Commit(newGrid)
                  /\ selection' = None
  /\ UNCHANGED <<crashed, ioVars, colInput, toolVars, isSelecting, selectionStart,
                 justFinishedSelection, dragVars, clipboard, dupVars, isPainting>>

deleteRows(startIndex, count) ==
  /\ Handler("deleteRows")
  /\ startIndex < NumRows(grid)
  /\ LET maxDeletable == Len(grid) - 1
         actualCount == Min(count, maxDeletable)
     IN IF actualCount <= 0
          THEN UNCHANGED <<grid, rowInput, selection>> /\ NoCommit
          ELSE LET newGrid == RemoveRange(grid, startIndex, actualCount)
               IN /\ grid' = newGrid
                  /\ rowInput' = Len(newGrid)
                  /\ Commit(newGrid)
                  /\ selection' = None
  /\ UNCHANGED <<crashed, ioVars, colInput, toolVars, isSelecting, selectionStart,
                 justFinishedSelection, dragVars, clipboard, dupVars, isPainting>>

deleteColumns(startIndex, count) ==
  /\ Handler("deleteColumns")
  /\ startIndex < NumCols(grid)
  /\ LET currentCols == NumCols(grid)
         maxDeletable == currentCols - 1
         actualCount == Min(count, maxDeletable)
     IN IF actualCount <= 0
          THEN UNCHANGED <<grid, colInput, selection>> /\ NoCommit
          ELSE LET newGrid ==
                     [r \in 1..Len(grid) |-> RemoveRange(grid[r], startIndex, actualCount)]
               IN /\ grid' = newGrid
                  /\ colInput' = NumCols(newGrid)
                  /\ Commit(newGrid)
                  /\ selection' = None
  /\ UNCHANGED <<crashed, ioVars, rowInput, toolVars, isSelecting, selectionStart,
                 justFinishedSelection, dragVars, clipboard, dupVars, isPainting>>

-----------------------------------------------------------------------------
(* Project file load *)

\* colorUtils normalizePalette: an entry given as a bare string becomes an entry object
\* (a bare string s is written [string |-> s])
normalizePalette(entries) ==
  [i \in DOMAIN entries |->
     IF "string" \in DOMAIN entries[i]
       THEN [hex |-> entries[i].string, quantity |-> INFINITY]
       ELSE entries[i]]

\* project files offered to the file input: parsed JSON with rows, columns, cells and,
\* optionally, a palette
Documents ==
  { [rows |-> 1, columns |-> 2, cells |-> <<<<RED, CLEAR>>>>, palette |-> None],
    [rows |-> 2, columns |-> 2, cells |-> <<<<RED, CLEAR>>, <<CLEAR, RED>>>>,
     palette |-> Some(<<[string |-> CLEAR], [hex |-> RED, quantity |-> 3]>>)] }

\* files offered to the file input that handleFileLoad does not accept: text that
\* JSON.parse refuses, and documents in which rows, columns or cells is missing or falsy
MalformedFiles ==
  { [syntaxError |-> TRUE],
    [columns |-> 2, cells |-> <<<<RED, CLEAR>>>>, palette |-> None],
    [rows |-> 0, columns |-> 2, cells |-> <<<<RED, CLEAR>>>>, palette |-> None],
    [rows |-> 1, columns |-> 2, palette |-> None] }

\* project files whose palette array carries no clear entry
ClearlessDocuments ==
  { [rows |-> 1, columns |-> 2, cells |-> <<<<CLEAR, RED>>>>,
     palette |-> Some(<<[hex |-> RED, quantity |-> 3], [hex |-> "#0000ff", quantity |-> 2]>>)] }

\* project files whose cells array is not the rows x columns array the file declares: too
\* few rows and columns, rows of different lengths, and no rows (an empty array is truthy)
MismatchedDocuments ==
  { [rows |-> 2, columns |-> 2, cells |-> <<<<RED>>>>, palette |-> None],
    [rows |-> 2, columns |-> 2, cells |-> <<<<RED, CLEAR>>, <<RED>>>>, palette |-> None],
    [rows |-> 1, columns |-> 2, cells |-> <<>>, palette |-> None] }

\* handleFileLoad: JSON.parse threw, or the test `data.rows && data.columns && data.cells`
\* is false
LoadRejected(data) ==
  \/ "syntaxError" \in DOMAIN data
  \/ "rows" \notin DOMAIN data \/ "columns" \notin DOMAIN data \/ "cells" \notin DOMAIN data
  \/ data.rows = 0 \/ data.columns = 0

\* handleFileLoad: the palette of the file is an array without a clear entry, so that the
\* argument of setPalette reads CLEAR_PALETTE_ITEM, which is declared nowhere: a
\* ReferenceError, caught by the handler and reported as a failed load
LoadThrows(data) ==
  /\ ~LoadRejected(data)
  /\ ~IsNull(data.palette)
  /\ \A i \in DOMAIN normalizePalette(Val(data.palette)) :
       normalizePalette(Val(data.palette))[i].hex # CLEAR

\* handleFileLoad, reader.onload
handleFileLoad(data) ==
  /\ Handler("handleFileLoad")
  /\ IF LoadRejected(data)
       THEN UNCHANGED <<grid, inputVars, palette>> /\ NoCommit
       ELSE /\ rowInput' = data.rows
            /\ colInput' = data.columns
            /\ grid' = data.cells
            /\ Commit(data.cells)
            /\ IF IsNull(data.palette) \/ LoadThrows(data)
                 THEN UNCHANGED palette  \* the state updates queued before the throw stay
                 ELSE palette' = normalizePalette(Val(data.palette))
  /\ UNCHANGED <<crashed, toolVars, selVars, justFinishedSelection, dragVars, clipboard,
                 dupVars, isPainting, pendingDecodes, downloaded, editingColor>>

\* JSON.stringify of a grid: a missing cell (undefined) is written as null
jsonCells(g) ==
  [r \in DOMAIN g |-> [c \in DOMAIN g[r] |-> IF g[r][c] = UNDEFINED THEN NULL ELSE g[r][c]]]

\* JSON.stringify of a palette: an infinite quantity is written as null
jsonPalette(pal) ==
  [i \in DOMAIN pal |->
     [pal[i] EXCEPT !.quantity = IF @ = INFINITY THEN NULL_QUANTITY ELSE @]]

\* saveGrid: the document written to the download, as JSON.parse reads it back
exportedDocument ==
  [rows |-> Len(grid),
   columns |-> IF Len(grid) > 0 THEN Len(grid[1]) ELSE 0,
   cells |-> jsonCells(grid),
   palette |-> Some(jsonPalette(palette))]

\* saveGrid; `named` is false when the prompt for the file name is cancelled
saveGrid(named) ==
  /\ Handler("saveGrid")
  /\ downloaded' = IF named THEN Some(exportedDocument) ELSE downloaded
  /\ NoCommit
  /\ UNCHANGED <<crashed, grid, inputVars, toolVars, selVars, justFinishedSelection,
                 dragVars, clipboard, dupVars, isPainting, palette, pendingDecodes,
                 editingColor>>

-----------------------------------------------------------------------------
(* Palette import *)

\* getHue, as the exact fraction <<n, d>> of 60 degrees (the code computes the same
\* quotient in floating point); 0 for a key hexToRgb does not read and for a grey
getHue(hex) ==
  LET rgb == hexToRgb(hex)
  IN IF IsNull(rgb) THEN <<0, 1>>
     ELSE LET r == Val(rgb)[1]
              g == Val(rgb)[2]
              b == Val(rgb)[3]
              max == Max(r, Max(g, b))
              min == Min(r, Min(g, b))
              d == max - min
          IN IF max = min THEN <<0, 1>>
             ELSE IF max = r THEN <<(g - b) + (IF g < b THEN 6 * d ELSE 0), d>>
             ELSE IF max = g THEN <<(b - r) + 2 * d, d>>
             ELSE <<(r - g) + 4 * d, d>>

\* the comparators of handlePaletteImport are negative: the CSV branch orders by hue, the
\* JSON branch puts clear and disney before every other entry
ComparesBefore(a, b, json) ==
  IF json /\ (a.hex = CLEAR \/ a.hex = DISNEY) THEN TRUE
  ELSE IF json /\ (b.hex = CLEAR \/ b.hex = DISNEY) THEN FALSE
  ELSE getHue(a.hex)[1] * getHue(b.hex)[2] < getHue(b.hex)[1] * getHue(a.hex)[2]

\* Array.prototype.sort under one of the two comparators: a stable sort
RECURSIVE sortColors(_, _)
sortColors(colors, json) ==
  IF Len(colors) = 0 THEN <<>>
  ELSE LET front == sortColors(SubSeq(colors, 1, Len(colors) - 1), json)
           x == colors[Len(colors)]
           k == Cardinality({i \in DOMAIN front : ~ComparesBefore(x, front[i], json)})
       IN SubSeq(front, 1, k) \o <<x>> \o SubSeq(front, k + 1, Len(front))

\* String.prototype.toLowerCase on the fields of the CSV files below
toLowerCase ==
  ("" :> "") @@ ("N/A" :> "n/a") @@ ("na" :> "na") @@ ("Hex" :> "hex") @@
  ("Name" :> "name") @@ ("Red" :> "red") @@ ("Blue" :> "blue") @@ ("Clear" :> "clear") @@
  ("Metallic" :> "metallic") @@ ("A6271C" :> "a6271c") @@ ("#0000FF" :> "#0000ff") @@
  ("#a6271c" :> "#a6271c") @@ ("12345" :> "12345")

\* `#` is put in front of a field that does not start with it
withHash ==
  ("a6271c" :> "#a6271c") @@ ("#0000ff" :> "#0000ff") @@ ("#a6271c" :> "#a6271c") @@
  ("12345" :> "#12345")

\* the header test of the CSV branch: the first line, in lower case, contains one of the
\* words hex, color, name (among the fields below, the fields that are such a word)
LooksLikeHeader(line) ==
  \E f \in {line.name, line.hex} : toLowerCase[f] \in {"hex", "color", "name"}

\* the palette the CSV branch builds from the data lines: `na` counts the N/A lines so far
RECURSIVE csvColors(_, _)
csvColors(lines, na) ==
  IF Len(lines) = 0 THEN [special |-> <<>>, regular |-> <<>>]
  ELSE LET line == Head(lines)
           quantity == IF IsNull(line.count) \/ Val(line.count) = 0
                         THEN INFINITY ELSE Val(line.count)
           hex == toLowerCase[line.hex]
           isNA == hex \in {"n/a", "na", ""}
           rest == csvColors(Tail(lines), IF isNA THEN na + 1 ELSE na)
       IN IF isNA
            THEN IF na = 0
                   THEN [rest EXCEPT !.special = <<[hex |-> CLEAR, quantity |-> quantity]>> \o @]
                 ELSE IF na = 1
                   THEN [rest EXCEPT !.special = <<[hex |-> DISNEY, quantity |-> quantity]>> \o @]
                 ELSE rest
          ELSE IF withHash[hex] \in DOMAIN HexTable
            THEN [rest EXCEPT !.regular = <<[hex |-> withHash[hex], quantity |-> quantity]>> \o @]
          ELSE rest

\* the palette handlePaletteImport installs for a file, None when it installs nothing (the
\* text does not parse, the file has no line, or no colour is found)
importedPalette(file) ==
  IF "syntaxError" \in DOMAIN file THEN None
  ELSE IF file.kind = "json"
    THEN IF Len(file.colors) > 0 THEN Some(sortColors(file.colors, TRUE)) ELSE None
  ELSE IF Len(file.lines) = 0 THEN None
  ELSE LET data == IF LooksLikeHeader(file.lines[1]) THEN Tail(file.lines) ELSE file.lines
           found == csvColors(data, 0)
           colors == found.special \o sortColors(found.regular, FALSE)
       IN IF Len(colors) > 0 THEN Some(colors) ELSE None

\* handlePaletteImport, reader.onload
handlePaletteImport(file) ==
  /\ Handler("handlePaletteImport")
  /\ IF IsNull(importedPalette(file))
       THEN UNCHANGED <<palette, selectedColor>>
       ELSE /\ palette' = Val(importedPalette(file))
            /\ selectedColor' = Val(importedPalette(file))[1].hex
  /\ NoCommit
  /\ UNCHANGED <<crashed, grid, inputVars, mirrorMode, selVars, justFinishedSelection,
                 dragVars, clipboard, dupVars, isPainting, pendingDecodes, downloaded,
                 editingColor>>

\* a line of a CSV palette file: name, quantity, hex; `count` is what parseInt makes of the
\* quantity field (None for NaN)
CsvLine(name, count, hex) == [name |-> name, count |-> count, hex |-> hex]

\* palette files offered to the palette input
PaletteFiles ==
  { [syntaxError |-> TRUE],
    [kind |-> "json", colors |-> <<>>],
    [kind |-> "json",
     colors |-> <<[hex |-> "#0000ff", quantity |-> 2], [hex |-> CLEAR, quantity |-> 9],
                  [hex |-> RED, quantity |-> 3]>>],
    [kind |-> "json",
     colors |-> <<[hex |-> "#0000ff", quantity |-> 2], [hex |-> RED, quantity |-> 3]>>],
    [kind |-> "json",
     colors |-> <<[hex |-> RED, quantity |-> 2], [hex |-> CLEAR, quantity |-> 9],
                  [hex |-> RED, quantity |-> 3]>>],
    [kind |-> "csv", lines |-> <<>>],
    [kind |-> "csv", lines |-> <<CsvLine("Name", None, "Hex"), CsvLine("Red", None, "12345")>>],
    [kind |-> "csv",
     lines |-> <<CsvLine("Name", None, "Hex"), CsvLine("Clear", Some(9), "N/A"),
                 CsvLine("Metallic", Some(0), ""), CsvLine("Blue", Some(2), "#0000FF"),
                 CsvLine("Red", Some(3), "A6271C")>>],
    [kind |-> "csv",
     lines |-> <<CsvLine("Blue", Some(2), "#0000FF"), CsvLine("Red", Some(3), "A6271C")>>],
    [kind |-> "csv",
     lines |-> <<CsvLine("Clear", None, "na"), CsvLine("Red", Some(3), "A6271C"),
                 CsvLine("Red", Some(2), "#a6271c")>>] }

-----------------------------------------------------------------------------
(* Image import *)

getTotalAvailableDominoes(pal) ==
  LET F[i \in 0..Len(pal)] ==
        IF i = 0 THEN 0
        ELSE IF pal[i].hex = CLEAR \/ pal[i].hex = DISNEY THEN F[i - 1]
        ELSE F[i - 1] + (IF pal[i].quantity = INFINITY THEN 0 ELSE pal[i].quantity)
  IN F[Len(pal)]

\* Math.floor(Math.sqrt(n / d)) for n >= 0, d > 0
FloorSqrtRatio(n, d) ==
  CHOOSE k \in 0..n : k * k * d <= n /\ (k + 1) * (k + 1) * d > n

\* getOptimalGridForImage: rows and cols for an image of the given width and height
getOptimalGridForImage(imageWidth, imageHeight, pal) ==
  LET total == getTotalAvailableDominoes(pal)
      targetCells == (total * 85) \div 100
      rows == FloorSqrtRatio(targetCells * imageHeight, imageWidth)
      cols == (rows * imageWidth) \div imageHeight
  IN [rows |-> Max(rows, 10), cols |-> Max(cols, 10)]

\* image files offered to the image input: natural size; every sampled pixel has alpha < 128
Images == { [width |-> 1, height |-> 1], [width |-> 2, height |-> 1] }

\* handleImageImport: the file is read and decoded asynchronously; the callbacks keep the
\* palette of the render that started the import.  `superseded` is bookkeeping of the
\* model, not of the program: it is set once the decode of an import triggered later has
\* completed and been applied
handleImageImport(img) ==
  /\ Handler("handleImageImport")
  /\ NoCommit
  /\ IF \E i \in DOMAIN palette : palette[i].hex # CLEAR /\ palette[i].hex # DISNEY
       THEN /\ Len(pendingDecodes) < MaxPending
            /\ pendingDecodes' = Append(pendingDecodes,
                                      [image |-> img, palette |-> palette,
                                       superseded |-> FALSE])
       ELSE UNCHANGED pendingDecodes
  /\ UNCHANGED <<crashed, grid, inputVars, toolVars, selVars, justFinishedSelection,
                 dragVars, clipboard, dupVars, isPainting, palette, downloaded,
                 editingColor>>

\* img.onload of pending decode k; confirmed is the answer to the confirm dialog
imageDecoded(k, confirmed) ==
  /\ Handler("imageDecoded")
  /\ k \in DOMAIN pendingDecodes
  /\ pendingDecodes' =
       RemoveRange([i \in DOMAIN pendingDecodes |->
                      IF confirmed /\ i < k
                        THEN [pendingDecodes[i] EXCEPT !.superseded = TRUE]
                        ELSE pendingDecodes[i]],
                   k - 1, 1)
  /\ IF ~confirmed
       THEN UNCHANGED <<grid, inputVars>> /\ NoCommit
       ELSE LET d == pendingDecodes[k]
                optimal == getOptimalGridForImage(d.image.width, d.image.height, d.palette)
                pixelColors == createEmptyGrid(optimal.rows, optimal.cols)
                newGrid == distributeColorsEvenly(pixelColors, d.palette)
            IN /\ rowInput' = optimal.rows
               /\ colInput' = optimal.cols
               /\ grid' = newGrid
               /\ Commit(newGrid)
  /\ UNCHANGED <<crashed, toolVars, selVars, justFinishedSelection, dragVars, clipboard,
                 dupVars, isPainting, palette, downloaded, editingColor>>

-----------------------------------------------------------------------------
\* every event handler of the mounted component; pointer events, header clicks and menus
\* address rows and columns 0..ptr-1, typed dimensions are 1..size, menu counts 1..maxCount
HandlersOf(ptr, size, maxCount) ==
  \/ undo
  \/ redo
  \/ \E color \in PickedColors : SetSelectedColor(color)
  \/ \E mode \in MirrorModes : SetMirrorMode(mode)
  \/ \E v \in 1..size : applyGridSize(Some(v), None)
  \/ \E v \in 1..size : applyGridSize(None, Some(v))
  \/ clearGrid
  \/ \E row \in 0..(ptr - 1) : fillRow(row)
  \/ \E col \in 0..(ptr - 1) : fillColumn(col)
  \/ copySelection
  \/ pasteClipboard
  \/ fillSelection
  \/ clearSectionWithClear
  \/ clearSelection
  \/ \E s \in PickedColors, t \in PickedColors : replaceColor(s, t, selection)
  \/ \E row \in 0..(ptr - 1), col \in 0..(ptr - 1), shiftKey \in BOOLEAN :
       handleMouseDown(row, col, shiftKey)
  \/ \E row \in 0..(ptr - 1), col \in 0..(ptr - 1) : handleMouseEnter(row, col)
  \/ handleMouseUp
  \/ \E onBackground \in BOOLEAN : handleAppClick(onBackground)
  \/ startDuplicate
  \/ escape
  \/ \E index \in 0..(ptr - 1), position \in {"above", "below"}, count \in 1..maxCount :
       addRows(index, position, count)
  \/ \E index \in 0..(ptr - 1), position \in {"left", "right"}, count \in 1..maxCount :
       addColumns(index, position, count)
  \/ \E index \in 0..(ptr - 1) : deleteRow(index)
  \/ \E index \in 0..(ptr - 1) : deleteColumn(index)
  \/ \E index \in 0..(ptr - 1), count \in 1..maxCount : deleteRows(index, count)
  \/ \E index \in 0..(ptr - 1), count \in 1..maxCount : deleteColumns(index, count)
  \/ \E data \in Documents : handleFileLoad(data)
  \/ \E img \in Images : handleImageImport(img)
  \/ \E k \in 1..MaxPending, confirmed \in BOOLEAN : imageDecoded(k, confirmed)

Handlers == HandlersOf(MaxPtr, MaxSize, MaxCount)

Next == InitHistory \/ Handlers

Spec == Init /\ [][Next]_vars

-----------------------------------------------------------------------------
(* Sessions restricted to one group of handlers, from the same initial state *)

\* painting: tool setters, resize, pointer events and undo / redo
PaintHandlers ==
  \/ undo
  \/ redo
  \/ \E color \in PickedColors : SetSelectedColor(color)
  \/ \E mode \in MirrorModes : SetMirrorMode(mode)
  \/ \E v \in 1..MaxSize : applyGridSize(Some(v), None)
  \/ \E v \in 1..MaxSize : applyGridSize(None, Some(v))
  \/ \E row \in 0..(MaxPtr - 1), col \in 0..(MaxPtr - 1), shiftKey \in BOOLEAN :
       handleMouseDown(row, col, shiftKey)
  \/ \E row \in 0..(MaxPtr - 1), col \in 0..(MaxPtr - 1) : handleMouseEnter(row, col)
  \/ handleMouseUp

InitPaint == Session(PaintSteps) /\ dist = DistIdle

SpecPaint == InitPaint /\ [][InitHistory \/ PaintHandlers]_vars

\* paint gestures: colour choice, pointer events and undo
GestureHandlers ==
  \/ undo
  \/ \E color \in PickedColors : SetSelectedColor(color)
  \/ \E row \in 0..(MaxPtr - 1), col \in 0..(MaxPtr - 1), shiftKey \in BOOLEAN :
       handleMouseDown(row, col, shiftKey)
  \/ \E row \in 0..(MaxPtr - 1), col \in 0..(MaxPtr - 1) : handleMouseEnter(row, col)
  \/ handleMouseUp

InitGesture == Session(GestureSteps) /\ dist = DistIdle

SpecGesture == InitGesture /\ [][InitHistory \/ GestureHandlers]_vars

\* structure: resize, insertion and deletion of rows and columns, undo / redo
StructHandlers ==
  \/ undo
  \/ redo
  \/ \E v \in 1..MaxSize : applyGridSize(Some(v), None)
  \/ \E v \in 1..MaxSize : applyGridSize(None, Some(v))
  \/ \E index \in 0..(MaxPtr - 1), position \in {"above", "below"}, count \in 1..MaxCount :
       addRows(index, position, count)
  \/ \E index \in 0..(MaxPtr - 1), position \in {"left", "right"}, count \in 1..MaxCount :
       addColumns(index, position, count)
  \/ \E index \in 0..(MaxPtr - 1) : deleteRow(index)
  \/ \E index \in 0..(MaxPtr - 1) : deleteColumn(index)
  \/ \E index \in 0..(MaxPtr - 1), count \in 1..MaxCount : deleteRows(index, count)
  \/ \E index \in 0..(MaxPtr - 1), count \in 1..MaxCount : deleteColumns(index, count)

InitStruct == Session(StructSteps) /\ dist = DistIdle

SpecStruct == InitStruct /\ [][InitHistory \/ StructHandlers]_vars

\* history: undo / redo between whole-grid edits and project loads
HistHandlers ==
  \/ undo
  \/ redo
  \/ \E v \in 1..MaxSize : applyGridSize(Some(v), None)
  \/ \E v \in 1..MaxSize : applyGridSize(None, Some(v))
  \/ clearGrid
  \/ \E color \in PickedColors : SetSelectedColor(color)
  \/ \E row \in 0..(MaxPtr - 1) : fillRow(row)
  \/ \E data \in Documents : handleFileLoad(data)

InitHist == Session(HistSteps) /\ dist = DistIdle

SpecHist == InitHist /\ [][InitHistory \/ HistHandlers]_vars

\* selection: shift-drag selection, clipboard, region fill and clear, resize, undo / redo
SelectHandlers ==
  \/ undo
  \/ redo
  \/ \E color \in PickedColors : SetSelectedColor(color)
  \/ \E v \in 1..MaxSize : applyGridSize(Some(v), None)
  \/ \E v \in 1..MaxSize : applyGridSize(None, Some(v))
  \/ \E row \in 0..(MaxPtr - 1), col \in 0..(MaxPtr - 1), shiftKey \in BOOLEAN :
       handleMouseDown(row, col, shiftKey)
  \/ \E row \in 0..(MaxPtr - 1), col \in 0..(MaxPtr - 1) : handleMouseEnter(row, col)
  \/ handleMouseUp
  \/ copySelection
  \/ pasteClipboard
  \/ fillSelection
  \/ clearSectionWithClear
  \/ clearSelection

InitSelect == Session(SelectSteps) /\ dist = DistIdle

SpecSelect == InitSelect /\ [][InitHistory \/ SelectHandlers]_vars

\* an import session: image imports and their decodes, project loads, undo
ImportHandlers ==
  \/ undo
  \/ \E data \in Documents : handleFileLoad(data)
  \/ \E img \in Images : handleImageImport(img)
  \/ \E k \in 1..MaxPending, confirmed \in BOOLEAN : imageDecoded(k, confirmed)

InitImport == Session(ImportSteps) /\ dist = DistIdle

SpecImport == InitImport /\ [][InitHistory \/ ImportHandlers]_vars

\* project load, project save and palette import: every kind of file, and the file the
\* session itself wrote last
Files == Documents \cup ClearlessDocuments \cup MalformedFiles \cup MismatchedDocuments

LoadHandlers ==
  \/ undo
  \/ \E named \in BOOLEAN : saveGrid(named)
  \/ \E data \in Files \cup (IF IsNull(downloaded) THEN {} ELSE {Val(downloaded)}) :
       handleFileLoad(data)
  \/ \E file \in PaletteFiles : handlePaletteImport(file)

InitLoad == Session(LoadSteps) /\ dist = DistIdle

SpecLoad == InitLoad /\ [][InitHistory \/ LoadHandlers]_vars

-----------------------------------------------------------------------------
(* A session with a long history.  The initial state is the one the program *)
(* is in after mount, a resize to one row, a resize to one column and then  *)
(* clearGrid until the log holds MAX_HISTORY - 1 snapshots.                 *)

DeepLog(logLen) ==
  <<createEmptyGrid(5, 8), createEmptyGrid(1, 8)>>
    \o [i \in 1..(logLen - 2) |-> createEmptyGrid(1, 1)]

InitDeep ==
  /\ mounted = TRUE
  /\ crashed = FALSE
  /\ grid = createEmptyGrid(1, 1)
  /\ history = DeepLog(MAX_HISTORY - 1)
  /\ historyIndex = MAX_HISTORY - 2
  /\ historyIndexRef = MAX_HISTORY - 2
  /\ isUndoRedo = FALSE
  /\ rowInput = 1
  /\ colInput = 1
  /\ selectedColor = CLEAR
  /\ mirrorMode = "none"
  /\ selection = None
  /\ isSelecting = FALSE
  /\ selectionStart = None
  /\ justFinishedSelection = FALSE
  /\ isDraggingSelection = FALSE
  /\ dragOffsetRef = [row |-> 0, col |-> 0]
  /\ dragPreview = None
  /\ clipboard = None
  /\ isDuplicateDragging = FALSE
  /\ duplicatePreview = None
  /\ duplicateClipboard = None
  /\ isPainting = FALSE
  /\ palette = DEFAULT_PALETTE
  /\ pendingDecodes = <<>>
  /\ downloaded = None
  /\ editingColor = None
  /\ dist = DistIdle
  /\ steps = 0
  /\ lastOp = "clearGrid"
  /\ gridBefore = createEmptyGrid(1, 1)
  /\ committedBefore = <<createEmptyGrid(1, 1)>>
  /\ stepLimit = DeepSteps
  /\ cancelPending = FALSE
  /\ committed = <<createEmptyGrid(1, 1)>>

DeepHandlers == HandlersOf(DeepPtr, DeepSize, DeepCount)

SpecDeep == InitDeep /\ [][DeepHandlers]_vars

\* drag-move and duplicate staging and their cancellation, from the session in which the
\* cell (0, 0) has been painted red and the cells (0, 0)..(0, 1) have then been selected
\* with the pointer
RedCornerGrid == [createEmptyGrid(5, 8) EXCEPT ![1][1] = RED]

\* the cells the pointer visits
CancelCells == {<<0, 0>>, <<0, 1>>, <<1, 1>>}

CancelHandlers ==
  \/ \E cell \in CancelCells, shiftKey \in BOOLEAN : handleMouseDown(cell[1], cell[2], shiftKey)
  \/ \E cell \in CancelCells : handleMouseEnter(cell[1], cell[2])
  \/ handleMouseUp
  \/ startDuplicate
  \/ escape

InitCancel ==
  /\ mounted = TRUE
  /\ crashed = FALSE
  /\ grid = RedCornerGrid
  /\ history = <<createEmptyGrid(5, 8), RedCornerGrid>>
  /\ historyIndex = 1
  /\ historyIndexRef = 1
  /\ isUndoRedo = FALSE
  /\ rowInput = 5
  /\ colInput = 8
  /\ selectedColor = RED
  /\ mirrorMode = "none"
  /\ selection = Some(Rect(0, 0, 0, 1))
  /\ isSelecting = FALSE
  /\ selectionStart = Some([row |-> 0, col |-> 0])
  /\ justFinishedSelection = TRUE
  /\ isDraggingSelection = FALSE
  /\ dragOffsetRef = [row |-> 0, col |-> 0]
  /\ dragPreview = None
  /\ clipboard = None
  /\ isDuplicateDragging = FALSE
  /\ duplicatePreview = None
  /\ duplicateClipboard = None
  /\ isPainting = FALSE
  /\ palette = DEFAULT_PALETTE
  /\ pendingDecodes = <<>>
  /\ downloaded = None
  /\ editingColor = None
  /\ dist = DistIdle
  /\ steps = 0
  /\ lastOp = "handleMouseUp"
  /\ gridBefore = RedCornerGrid
  /\ committedBefore = <<>>
  /\ stepLimit = CancelSteps
  /\ cancelPending = FALSE
  /\ committed = <<>>

SpecCancel == InitCancel /\ [][CancelHandlers]_vars

\* deletion of rows and columns under a selection, from the same session: both menus,
\* a new range selection, undo
DeleteHandlers ==
  \/ undo
  \/ \E cell \in CancelCells : handleMouseDown(cell[1], cell[2], TRUE)
  \/ handleMouseUp
  \/ \E index \in {0, 1} : deleteRow(index)
  \/ \E index \in {0, 1} : deleteColumn(index)
  \/ \E index \in {0, 1}, count \in {1, 2} : deleteRows(index, count)
  \/ \E index \in {0, 1}, count \in {1, 2} : deleteColumns(index, count)

SpecDelete == InitCancel /\ [][DeleteHandlers]_vars

\* the clipboard, from the same session: copy and paste, a new selection at the cells
\* (0,1) and (4,7), clearing of the region and of the selection, duplicate, Escape,
\* undo / redo
ClipHandlers ==
  \/ undo
  \/ redo
  \/ \E cell \in {<<0, 1>>, <<4, 7>>} : handleMouseDown(cell[1], cell[2], TRUE)
  \/ handleMouseUp
  \/ copySelection
  \/ pasteClipboard
  \/ clearSectionWithClear
  \/ clearSelection
  \/ startDuplicate
  \/ escape

SpecClip == InitCancel /\ [][ClipHandlers]_vars

-----------------------------------------------------------------------------
(* DominoStats *)

\* DominoStats: the colours of the grid whose count exceeds, or comes within 10 of, the
\* quantity of their palette entry (the last entry of that key; a colour without an
\* entry counts as unlimited), and the two badges of the title
DominoStats(g, pal) ==
  LET cells == {rc \in (1..Len(g)) \X (1..MaxRowLen(g)) : rc[2] <= Len(g[rc[1]])}
      colors == {g[rc[1]][rc[2]] : rc \in cells}
      used(color) == Cardinality({rc \in cells : g[rc[1]][rc[2]] = color})
      entries(color) == {i \in DOMAIN pal : pal[i].hex = color}
      available(color) ==
        IF entries(color) = {} THEN INFINITY
        ELSE pal[CHOOSE i \in entries(color) : \A j \in entries(color) : j <= i].quantity
      over == {color \in colors :
                 available(color) # INFINITY /\ used(color) > available(color)}
      approaching == {color \in colors \ over :
                        /\ available(color) # INFINITY
                        /\ available(color) - used(color) <= 10}
  IN [overLimit |-> over, approachingLimit |-> approaching,
      hasWarnings |-> over # {}, hasApproaching |-> approaching # {}]

-----------------------------------------------------------------------------
(* The palette editor of the first App component in App.jsx: its palette is  *)
(* a list of colour keys.  Its saveToHistory reads historyIndex where the    *)
(* later one reads the mirror historyIndexRef, which holds the same value at *)
(* the start of every handler.                                                *)

\* addColorToPalette, with the value of the colour picker
addColorToPalette(pickerColor) ==
  /\ Handler("addColorToPalette")
  /\ LET normalized == toLowerCase[pickerColor]
     IN /\ palette' = IF \E i \in DOMAIN palette : palette[i] = normalized
                        THEN palette
                        ELSE Append(palette, normalized)
        /\ selectedColor' = normalized
  /\ editingColor' = None
  /\ NoCommit
  /\ UNCHANGED <<crashed, grid, inputVars, mirrorMode, selVars, justFinishedSelection,
                 dragVars, clipboard, dupVars, isPainting, pendingDecodes, downloaded>>

\* deleteSelectedSwatches, with the set of swatches ticked for deletion
deleteSelectedSwatches(selectedForDeletion) ==
  /\ Handler("deleteSelectedSwatches")
  /\ LET Kept(c) == c \notin selectedForDeletion
     IN palette' = SelectSeq(palette, Kept)
  /\ selectedColor' = IF selectedColor \in selectedForDeletion THEN CLEAR ELSE selectedColor
  /\ NoCommit
  /\ UNCHANGED <<crashed, grid, inputVars, mirrorMode, selVars, justFinishedSelection,
                 dragVars, clipboard, dupVars, isPainting, pendingDecodes, downloaded,
                 editingColor>>

\* startEditingColor
startEditingColor(color) ==
  /\ Handler("startEditingColor")
  /\ editingColor' = IF color = CLEAR THEN editingColor ELSE Some(color)
  /\ NoCommit
  /\ UNCHANGED <<crashed, grid, inputVars, toolVars, selVars, justFinishedSelection,
                 dragVars, clipboard, dupVars, isPainting, palette, pendingDecodes,
                 downloaded>>

\* variant of applyColorEdit that renames the palette entry and leaves the grid alone
applyColorEdit_PaletteOnly(newColor) ==
  /\ Handler("applyColorEdit")
  /\ IF IsNull(editingColor) \/ editingColor = Some(CLEAR)
       THEN UNCHANGED <<palette, selectedColor, editingColor>>
       ELSE LET normalized == toLowerCase[newColor]
            IN /\ palette' = [i \in DOMAIN palette |->
                                IF palette[i] = Val(editingColor) THEN normalized
                                ELSE palette[i]]
               /\ selectedColor' = IF selectedColor = Val(editingColor) THEN normalized
                                   ELSE selectedColor
               /\ editingColor' = Some(normalized)
  /\ NoCommit
  /\ UNCHANGED <<crashed, grid, inputVars, mirrorMode, selVars, justFinishedSelection,
                 dragVars, clipboard, dupVars, isPainting, pendingDecodes, downloaded>>

\* applyColorEdit
applyColorEdit(newColor) ==
  /\ Handler("applyColorEdit")
  /\ IF IsNull(editingColor) \/ editingColor = Some(CLEAR)
       THEN /\ NoCommit
            /\ UNCHANGED <<grid, palette, selectedColor, editingColor>>
       ELSE LET normalized == toLowerCase[newColor]
                newGrid == [r \in 1..Len(grid) |-> [c \in 1..Len(grid[r]) |->
                              IF grid[r][c] = Val(editingColor) THEN normalized
                              ELSE grid[r][c]]]
            IN /\ palette' = [i \in DOMAIN palette |->
                                IF palette[i] = Val(editingColor) THEN normalized
                                ELSE palette[i]]
               /\ grid' = newGrid
               /\ Commit(newGrid)
               /\ selectedColor' = IF selectedColor = Val(editingColor) THEN normalized
                                   ELSE selectedColor
               /\ editingColor' = Some(normalized)
  /\ UNCHANGED <<crashed, inputVars, mirrorMode, selVars, justFinishedSelection,
                 dragVars, clipboard, dupVars, isPainting, pendingDecodes, downloaded>>

\* finishEditing
finishEditing ==
  /\ Handler("finishEditing")
  /\ editingColor' = None
  /\ NoCommit
  /\ UNCHANGED <<crashed, grid, inputVars, toolVars, selVars, justFinishedSelection,
                 dragVars, clipboard, dupVars, isPainting, palette, pendingDecodes,
                 downloaded>>

\* an editing session: colours added from the picker (one of them in upper case), rows
\* filled with the active colour, swatches edited and deleted, undo / redo
EditHandlers ==
  \/ undo
  \/ redo
  \/ \E row \in {0, 1} : fillRow(row)
  \/ \E pickerColor \in {"#a6271c", "#0000FF"} : addColorToPalette(pickerColor)
  \/ \E i \in DOMAIN palette : startEditingColor(palette[i])
  \/ \E newColor \in {"#a6271c", "#0000FF"} : applyColorEdit(newColor)
  \/ finishEditing
  \/ \E selectedForDeletion \in SUBSET {"#a6271c", "#0000ff"} :
       /\ selectedForDeletion # {}
       /\ \A c \in selectedForDeletion : \E i \in DOMAIN palette : palette[i] = c
       /\ deleteSelectedSwatches(selectedForDeletion)

\* the first App component after its first render and the mount effect
InitEdit ==
  /\ mounted = TRUE
  /\ crashed = FALSE
  /\ grid = createEmptyGrid(5, 8)
  /\ history = <<createEmptyGrid(5, 8)>>
  /\ historyIndex = 0
  /\ historyIndexRef = 0
  /\ isUndoRedo = FALSE
  /\ rowInput = 5
  /\ colInput = 8
  /\ selectedColor = CLEAR
  /\ mirrorMode = "none"
  /\ selection = None
  /\ isSelecting = FALSE
  /\ selectionStart = None
  /\ justFinishedSelection = FALSE
  /\ isDraggingSelection = FALSE
  /\ dragOffsetRef = [row |-> 0, col |-> 0]
  /\ dragPreview = None
  /\ clipboard = None
  /\ isDuplicateDragging = FALSE
  /\ duplicatePreview = None
  /\ duplicateClipboard = None
  /\ isPainting = FALSE
  /\ palette = <<CLEAR>>
  /\ pendingDecodes = <<>>
  /\ downloaded = None
  /\ editingColor = None
  /\ dist = DistIdle
  /\ steps = 0
  /\ lastOp = "init"
  /\ gridBefore = createEmptyGrid(5, 8)
  /\ committedBefore = <<>>
  /\ stepLimit = EditSteps
  /\ cancelPending = FALSE
  /\ committed = <<>>

SpecEdit == InitEdit /\ [][EditHandlers]_vars

-----------------------------------------------------------------------------
(* distributeColorsEvenly as a process: one step per iteration of its while *)
(* loop, over rasters and palettes drawn from bounded sets                  *)

uiVars == <<mounted, crashed, grid, histVars, inputVars, toolVars, selVars,
            justFinishedSelection, dragVars, clipboard, dupVars, isPainting, ioVars, steps,
            lastOp, gridBefore, committedBefore, stepLimit, cancelPending, committed>>

\* the regular colours of the default palette, in palette order
RegularColours == SelectSeq(DEFAULT_PALETTE, LAMBDA p : p.hex # CLEAR /\ p.hex # DISNEY)

\* clear and the first n regular colours, each with quantity q
PrefixPalette(n, q) ==
  <<[hex |-> CLEAR, quantity |-> INFINITY]>>
    \o [i \in 1..n |-> [hex |-> RegularColours[i].hex, quantity |-> q]]

\* clear, pure red and pure blue
TwoColourPalette(qa, qb) ==
  <<[hex |-> CLEAR, quantity |-> INFINITY],
    [hex |-> "#ff0000", quantity |-> qa], [hex |-> "#0000ff", quantity |-> qb]>>

DistPalettes ==
  {PrefixPalette(n, q) : n \in 1..MaxColours, q \in 1..MaxQty}
    \cup {TwoColourPalette(qa, qb) : qa \in 0..MaxQty \cup {INFINITY},
                                     qb \in 0..MaxQty \cup {INFINITY}}

\* one-row rasters of n red pixels, and all 2 x 2 rasters of clear, near-red and near-blue
DistRasters ==
  {<<[c \in 1..n |-> RED]>> : n \in 1..MaxCells}
    \cup {<<<<a, b>>, <<c, d>>>> : a \in {CLEAR, "#fe0001", "#0000fe"},
                                   b \in {CLEAR, "#fe0001", "#0000fe"},
                                   c \in {CLEAR, "#fe0001", "#0000fe"},
                                   d \in {CLEAR, "#fe0001", "#0000fe"}}

InitDist ==
  /\ Session(0)
  /\ \E pixelColors \in DistRasters, pal \in DistPalettes :
       dist = [pc |-> "called", pixelColors |-> pixelColors, palette |-> pal,
               run |-> DistStart(<<>>, <<>>), result |-> <<>>]

\* lines 182-230: availability map, preferences of every pixel, round = 0
DistBegin ==
  /\ dist.pc = "called"
  /\ dist' = [dist EXCEPT !.pc = "loop", !.run = DistStart(dist.pixelColors, dist.palette)]
  /\ UNCHANGED uiVars

\* lines 232-285: one iteration of the while loop
DistIterate ==
  /\ dist.pc = "loop"
  /\ DistContinues(dist.run)
  /\ dist' = [dist EXCEPT !.run = DistRound(dist.run)]
  /\ UNCHANGED uiVars

\* lines 287-298: the loop has ended, the output grid is built and returned
DistFinish ==
  /\ dist.pc = "loop"
  /\ ~DistContinues(dist.run)
  /\ dist' = [dist EXCEPT !.pc = "returned", !.result = DistResult(dist.run)]
  /\ UNCHANGED uiVars

NextDist == DistBegin \/ DistIterate \/ DistFinish

SpecDist == InitDist /\ [][NextDist]_vars

-----------------------------------------------------------------------------
(* distributeColorsEvenly with unlimited supply: palettes whose regular     *)
(* colours all have quantity Infinity                                        *)

\* the default palette with every quantity unlimited (as normalizePalette builds it from
\* a palette of bare strings)
UnlimitedDefaultPalette ==
  [i \in DOMAIN DEFAULT_PALETTE |-> [hex |-> DEFAULT_PALETTE[i].hex, quantity |-> INFINITY]]

ExactPalettes ==
  {PrefixPalette(n, INFINITY) : n \in 1..MaxColours}
    \cup {TwoColourPalette(INFINITY, INFINITY), UnlimitedDefaultPalette}

\* pixel colours of the sampled image
ExactPixels == {CLEAR, "#ffffff", "#000000", "#fe0001", "#0000fe", "#8b9086"}

ExactRasters ==
  DistRasters \cup {<<<<a, b>>>> : a \in ExactPixels, b \in ExactPixels}

InitExact ==
  /\ Session(0)
  /\ \E pixelColors \in ExactRasters, pal \in ExactPalettes :
       dist = [pc |-> "called", pixelColors |-> pixelColors, palette |-> pal,
               run |-> DistStart(<<>>, <<>>), result |-> <<>>]

SpecExact == InitExact /\ [][NextDist]_vars

-----------------------------------------------------------------------------
(* Properties of the history log *)

\* C1: after any sequence of grid-mutating operations, undo, redo, project load and
\* image import, the history log holds at most MAX_HISTORY (50) snapshots.
C1_HistoryBounded == Len(history) <= MAX_HISTORY

\* a commit has evicted the oldest snapshot of a full log: the log is full and no longer
\* starts with the grid of the first render
C1_EvictionHappened ==
  /\ Len(history) = MAX_HISTORY
  /\ committed # <<>>
  /\ steps > 0
  /\ history[1] # createEmptyGrid(5, 8)
  /\ history[Len(history)] = grid

\* C2: in every reachable state, also after earlier undo / redo, each completed
\* grid-mutating operation appends exactly one snapshot, equal to the post-mutation grid,
\* behind the snapshot the pointer was on, and leaves the pointer on the new snapshot.
C2_CommitAppendsSnapshot ==
  [][(committed' # <<>> /\ ~crashed')
       => /\ Len(history') = Min(historyIndex + 2, MAX_HISTORY)
          /\ historyIndex' = Len(history') - 1
          /\ history'[Len(history')] = grid']_vars

\* C3: if a mutation is committed and undo is invoked next, the live grid equals the grid
\* that was live before the mutation; a redo invoked immediately after that undo makes
\* the live grid equal to the post-mutation grid.
C3_UndoRedoRestore ==
  [][/\ (committed # <<>> /\ lastOp' = "undo") => grid' = gridBefore
     /\ (lastOp = "undo" /\ committedBefore # <<>> /\ lastOp' = "redo")
          => grid' = gridBefore]_vars

\* C4: a mutation committed while the pointer is not at the end of the log discards the
\* snapshots after the pointer before the new one is pushed, and a redo issued right
\* after a committed mutation is a no-op.
C4_CommitDiscardsFuture ==
  [][/\ (committed' # <<>> /\ ~crashed' /\ historyIndex < Len(history) - 1)
          => history' = Append(SubSeq(history, 1, historyIndex + 1), grid')
     /\ (committed # <<>> /\ lastOp' = "redo")
          => (grid' = grid /\ historyIndex' = historyIndex)]_vars

\* C5: once the log is initialised, 0 <= pointer < log.length and pointer <= 49 in every
\* reachable state, also when a commit evicts the oldest entry of a full log and when a
\* commit follows undos.
C5_PointerInRange ==
  mounted => /\ 0 <= historyIndex
             /\ historyIndex < Len(history)
             /\ historyIndex <= MAX_HISTORY - 1

\* the pointer is on the last slot of a full log right after two commits in a row, the
\* second of which evicted the oldest snapshot
C5_PointerAtCapAfterEviction ==
  /\ mounted
  /\ historyIndex = MAX_HISTORY - 1
  /\ Len(history) = MAX_HISTORY
  /\ history[1] = createEmptyGrid(1, 8)
  /\ committed # <<>>
  /\ committedBefore # <<>>
  /\ lastOp \notin {"undo", "redo"}
  /\ steps = DeepSteps

-----------------------------------------------------------------------------
(* Properties of painting and of the grid shape *)

\* C6: a drag-paint gesture (pointer-down on a cell outside any selection, zero or more
\* pointer-enter paints, then pointer-up or pointer-leave of the app) calls saveToHistory
\* exactly once, at its end and never per painted cell, with the grid after all paints.
C6_PaintGestureCommitsOnce ==
  [][/\ (lastOp' \in {"handleMouseDown", "handleMouseEnter"}
           /\ isPainting' /\ ~isDuplicateDragging)
          => committed' = <<>>
     /\ (isPainting /\ ~isDraggingSelection /\ lastOp' = "handleMouseUp")
          => (committed' = <<grid>> /\ grid' = grid /\ ~isPainting')]_vars

\* a gesture that painted two cells (pointer-down, pointer-enter) has ended: the log of
\* the session holds the initial grid and one snapshot with both cells
C6_TwoCellGestureEnded ==
  /\ lastOp = "handleMouseUp"
  /\ mirrorMode = "none"
  /\ NumRows(grid) = 5 /\ NumCols(grid) = 8
  /\ \E c1 \in 1..2, c2 \in 1..2 :
       c1 # c2 /\ grid[1][c1] = RED /\ grid[1][c2] = RED /\ gridBefore = grid
  /\ committed = <<grid>>
  /\ Len(history) = 2
  /\ history[2] = grid

\* every row has the same length
IsRectangular(g) == \A r \in DOMAIN g : Len(g[r]) = Len(g[1])

\* C7: after any sequence of paint, fill, replaceColor, paste, resize, insert / delete of
\* rows and columns, region move, duplicate placement, undo and redo the live grid is
\* rectangular with at least one row and one column.
C7_GridRectangular ==
  ~crashed => /\ NumRows(grid) >= 1
              /\ NumCols(grid) >= 1
              /\ IsRectangular(grid)

\* C8: deleteRows and deleteColumns remove Min(count, size - 1) lines at most and never
\* leave fewer than one row or column; deleteRow and deleteColumn on a grid with a
\* single line change nothing.
C8_DeleteKeepsOneLine ==
  [][/\ \A index \in 0..MaxPtr, count \in 1..(MaxCount + 1) :
          /\ deleteRows(index, count)
               => /\ NumRows(grid') >= 1
                  /\ NumRows(grid) - NumRows(grid') <= Min(count, NumRows(grid) - 1)
                  /\ (index = 0 => NumRows(grid') = NumRows(grid) - Min(count, NumRows(grid) - 1))
                  /\ NumCols(grid') = NumCols(grid)
          /\ deleteColumns(index, count)
               => /\ \A r \in DOMAIN grid' : Len(grid'[r]) >= 1
                  /\ NumCols(grid) - NumCols(grid') <= Min(count, NumCols(grid) - 1)
                  /\ (index = 0 => NumCols(grid') = NumCols(grid) - Min(count, NumCols(grid) - 1))
                  /\ NumRows(grid') = NumRows(grid)
     /\ (lastOp' = "deleteRow" /\ NumRows(grid) = 1) => (grid' = grid /\ committed' = <<>>)
     /\ (lastOp' = "deleteColumn" /\ NumCols(grid) = 1) => (grid' = grid /\ committed' = <<>>)
     /\ (lastOp' \in {"deleteRow", "deleteColumn", "deleteRows", "deleteColumns"})
          => (NumRows(grid') >= 1 /\ NumCols(grid') >= 1)]_vars

\* deleteRows has removed one row of a two-row grid and recorded the one-row grid
C8_DeletedDownToOneRow ==
  /\ lastOp = "deleteRows"
  /\ NumRows(gridBefore) = 2
  /\ NumRows(grid) = 1
  /\ committed = <<grid>>
  /\ rowInput = 1

\* the cells the mirror rule names for a paint at (r, c) on an R x C grid
MirrorTargets(mode, R, C, r, c) ==
  {<<r, c>>}
    \cup (IF mode \in {"horizontal", "both"} THEN {<<r, C - 1 - c>>} ELSE {})
    \cup (IF mode \in {"vertical", "both"} THEN {<<R - 1 - r, c>>} ELSE {})
    \cup (IF mode = "both" THEN {<<R - 1 - r, C - 1 - c>>} ELSE {})

\* grid g with the cells of `targets` set to color and every other cell as it was
PaintedGrid(g, targets, color) ==
  [i \in 1..Len(g) |->
     [j \in 1..Len(g[i]) |-> IF <<i - 1, j - 1>> \in targets THEN color ELSE g[i][j]]]

\* C9: a paint at an in-bounds (r, c) of an R x C grid sets exactly the cells (r, c),
\* (r, C-1-c) [horizontal, both], (R-1-r, c) [vertical, both] and (R-1-r, C-1-c) [both]
\* to the active colour, leaves every other cell unchanged and raises no error.
C9_MirrorPaint ==
  [][\A row \in 0..MaxPtr, col \in 0..MaxPtr :
       /\ (/\ handleMouseDown(row, col, FALSE)
           /\ ~isDuplicateDragging /\ ~isCellInSelection(row, col))
            => /\ grid' = PaintedGrid(grid, MirrorTargets(mirrorMode, NumRows(grid),
                                                         NumCols(grid), row, col),
                                      selectedColor)
               /\ ~crashed'
       /\ (/\ handleMouseEnter(row, col)
           /\ isPainting /\ ~isDuplicateDragging /\ ~isDraggingSelection)
            => /\ grid' = PaintedGrid(grid, MirrorTargets(mirrorMode, NumRows(grid),
                                                         NumCols(grid), row, col),
                                      selectedColor)
               /\ ~crashed']_vars

\* a pointer-down at (0, 0) with mode both has painted the four corners of the 5 x 8 grid
C9_FourCornersPainted ==
  /\ lastOp = "handleMouseDown"
  /\ mirrorMode = "both"
  /\ selectedColor = RED
  /\ NumRows(grid) = 5 /\ NumCols(grid) = 8
  /\ gridBefore = createEmptyGrid(5, 8)
  /\ grid = PaintedGrid(gridBefore, {<<0, 0>>, <<0, 7>>, <<4, 0>>, <<4, 7>>}, RED)

-----------------------------------------------------------------------------
(* Properties of the colour assignment *)

\* the number of cells of the returned grid that hold colour hex
AssignedCount(hex) ==
  Cardinality({rc \in (1..dist.run.rows) \X (1..dist.run.cols) :
                 dist.result[rc[1]][rc[2]] = hex})

\* a colour of finite quantity is assigned to more cells than its quantity
OverAssigned(hex) ==
  /\ Availability(dist.palette)[hex] # INFINITY
  /\ AssignedCount(hex) > Availability(dist.palette)[hex]

\* every non-special colour has zero remaining supply
AllExhausted ==
  \A hex \in DOMAIN dist.run.remainingAvailability :
    dist.run.remainingAvailability[hex] = 0

\* the loop stopped at the round cap with cells still unassigned
CapLeftCellsUnassigned ==
  /\ dist.run.round = MAX_ROUNDS
  /\ \E k \in DOMAIN dist.run.pixelPrefs : IsNull(dist.run.pixelPrefs[k].assigned)

\* the sum of the quantities of the non-special colours (INFINITY when one is unlimited)
TotalSupply ==
  LET avail == Availability(dist.palette)
      hexes == SelectSeq([i \in DOMAIN dist.palette |-> dist.palette[i].hex],
                         LAMBDA h : h \in DOMAIN avail)
      Sum[i \in 0..Len(hexes)] ==
        IF i = 0 THEN 0
        ELSE IF avail[hexes[i]] = INFINITY \/ Sum[i - 1] = INFINITY THEN INFINITY
        ELSE Sum[i - 1] + avail[hexes[i]]
  IN Sum[Len(hexes)]

\* the number of raster cells that are neither clear nor transparent
NonClearCells ==
  Cardinality({rc \in (1..dist.run.rows) \X (1..dist.run.cols) :
                 dist.pixelColors[rc[1]][rc[2]] \notin {CLEAR, "transparent"}})

\* C10 as stated: a finite-quantity colour is assigned to more cells than its quantity only
\* when every non-special colour has zero remaining supply; when the total supply is at
\* least the number of non-clear cells, no colour is assigned to more cells than its
\* quantity.
C10_OverAssignmentOnlyWhenExhausted ==
  dist.pc = "returned" =>
    /\ \A hex \in AvailableHexes(dist.palette) : OverAssigned(hex) => AllExhausted
    /\ TotalSupply >= NonClearCells
         => \A hex \in AvailableHexes(dist.palette) : ~OverAssigned(hex)

\* C10, amended: a finite-quantity colour is assigned to more cells than its quantity only
\* when every non-special colour has zero remaining supply or the loop stopped at its cap
\* of MAX_ROUNDS rounds with cells still unassigned; when the total supply is at least the
\* number of non-clear cells and the cap left no cell unassigned, no colour is assigned to
\* more cells than its quantity.
C10_OverAssignmentOnlyWhenExhaustedOrCapped ==
  dist.pc = "returned" =>
    /\ \A hex \in AvailableHexes(dist.palette) :
         OverAssigned(hex) => (AllExhausted \/ CapLeftCellsUnassigned)
    /\ (TotalSupply >= NonClearCells /\ ~CapLeftCellsUnassigned)
         => \A hex \in AvailableHexes(dist.palette) : ~OverAssigned(hex)

\* a run that ended before the cap has over-assigned a colour: the supply of every colour
\* was used up and the raster has more opaque cells than the palette has tiles
C10_OverAssignedWhenExhausted ==
  /\ dist.pc = "returned"
  /\ ~CapLeftCellsUnassigned
  /\ AllExhausted
  /\ TotalSupply < NonClearCells
  /\ \E hex \in AvailableHexes(dist.palette) : OverAssigned(hex)

-----------------------------------------------------------------------------
(* Properties of the rationing rounds *)

\* the unassigned cells of run state st whose best colour with supply left is hex
RationGroup(st, hex) ==
  {k \in DOMAIN st.pixelPrefs :
     /\ IsNull(st.pixelPrefs[k].assigned)
     /\ BestAvailable(st.pixelPrefs[k].preferences, st.remainingAvailability) > 0
     /\ st.pixelPrefs[k].preferences[
          BestAvailable(st.pixelPrefs[k].preferences, st.remainingAvailability)].hex = hex}

\* the distance of cell k of run state st to its best colour with supply left
RationDistance(st, k) ==
  st.pixelPrefs[k].preferences[
    BestAvailable(st.pixelPrefs[k].preferences, st.remainingAvailability)].distance

\* C11: in every rationing round, when the unassigned cells whose best still-available
\* colour is X outnumber X's remaining supply s, exactly s of them receive X, no refused
\* cell is strictly closer to X than a cell that receives it, X's supply becomes 0 and the
\* refused cells stay unassigned for the next round.
C11_RationingByDistance ==
  [][(dist.pc = "loop" /\ dist'.pc = "loop") =>
       \A hex \in DOMAIN dist.run.remainingAvailability :
         LET group == RationGroup(dist.run, hex)
             s == dist.run.remainingAvailability[hex]
             got == {k \in group : dist'.run.pixelPrefs[k].assigned = Some(hex)}
         IN Cardinality(group) > s
              => /\ Cardinality(got) = s
                 /\ \A k \in group \ got, w \in got :
                      RationDistance(dist.run, k) >= RationDistance(dist.run, w)
                 /\ dist'.run.remainingAvailability[hex] = 0
                 /\ \A k \in group \ got : IsNull(dist'.run.pixelPrefs[k].assigned)]_vars

\* the first round has rationed pure red of quantity 1 between a near-red and a near-blue
\* pixel (pure blue has no supply): the near-red pixel holds it, the near-blue one waits
C11_CloserPixelServed ==
  /\ dist.pc = "loop"
  /\ dist.run.round = 1
  /\ dist.palette = TwoColourPalette(1, 0)
  /\ dist.run.remainingAvailability["#ff0000"] = 0
  /\ \E k, w \in DOMAIN dist.run.pixelPrefs :
       /\ k < w
       /\ dist.pixelColors[dist.run.pixelPrefs[k].row + 1][dist.run.pixelPrefs[k].col + 1] = "#0000fe"
       /\ dist.pixelColors[dist.run.pixelPrefs[w].row + 1][dist.run.pixelPrefs[w].col + 1] = "#fe0001"
       /\ IsNull(dist.run.pixelPrefs[k].assigned)
       /\ dist.run.pixelPrefs[w].assigned = Some("#ff0000")

\* every non-special colour of the palette has unlimited supply
AllUnlimited ==
  \A i \in DOMAIN dist.palette :
    dist.palette[i].hex \notin {CLEAR, DISNEY} => dist.palette[i].quantity = INFINITY

\* C12: when every non-special palette colour has unlimited supply, every non-clear cell
\* receives the palette colour of minimum distance (the result of findClosestPaletteColor
\* for that cell), the loop runs one round at most, and no group is rationed.
C12_UnlimitedSupplyNearest ==
  AllUnlimited =>
    /\ dist.pc = "returned" =>
         /\ \A r \in 1..dist.run.rows, c \in 1..dist.run.cols :
              dist.result[r][c] =
                IF dist.pixelColors[r][c] \in {CLEAR, "transparent"} THEN CLEAR
                ELSE findClosestPaletteColor(dist.pixelColors[r][c], dist.palette)
         /\ dist.run.round <= 1
         /\ \A k \in DOMAIN dist.run.pixelPrefs : ~IsNull(dist.run.pixelPrefs[k].assigned)
    /\ dist.pc = "loop" =>
         /\ \A hex \in DOMAIN dist.run.remainingAvailability :
              Cardinality(RationGroup(dist.run, hex)) <= dist.run.remainingAvailability[hex]
         /\ dist.run.round = 1
              => \A k \in DOMAIN dist.run.pixelPrefs : ~IsNull(dist.run.pixelPrefs[k].assigned)

\* a run with unlimited supply has returned after one round, and a cell holds a colour that
\* is neither the first regular colour of the palette nor the colour of its pixel
C12_NearestOfSeveral ==
  /\ dist.pc = "returned"
  /\ AllUnlimited
  /\ dist.run.round = 1
  /\ Len(dist.palette) >= 4
  /\ \E r \in 1..dist.run.rows, c \in 1..dist.run.cols :
       /\ dist.result[r][c] \notin {CLEAR, dist.palette[2].hex, dist.pixelColors[r][c]}
       /\ dist.result[r][c] = findClosestPaletteColor(dist.pixelColors[r][c], dist.palette)

\* distributeColorsEvenly has returned for the raster [[#fe0001, #fe0001], [#0000fe, clear]]
\* and the palette clear, #ff0000 quantity 1, #0000ff quantity 1
ScenarioReturned ==
  /\ dist.pc = "returned"
  /\ dist.pixelColors = <<<<"#fe0001", "#fe0001">>, <<"#0000fe", CLEAR>>>>
  /\ dist.palette = TwoColourPalette(1, 1)

\* C13: for the 2 x 2 raster [[#fe0001, #fe0001], [#0000fe, clear]] and the palette clear,
\* #ff0000 quantity 1, #0000ff quantity 1, the returned grid has exactly one cell holding
\* #ff0000, exactly one holding #0000ff, and clear in the cell of the clear pixel.
C13_ScenarioOneRedOneBlue ==
  ScenarioReturned =>
    /\ AssignedCount("#ff0000") = 1
    /\ AssignedCount("#0000ff") = 1
    /\ dist.result[2][2] = CLEAR

\* C14: distributeColorsEvenly terminates for every raster and palette after MAX_ROUNDS
\* (10) rounds at most (every iteration of the loop counts one round, the count never
\* passes MAX_ROUNDS, and the loop is left as soon as it cannot continue), and on return
\* every cell holds a value: a cell still unassigned when the loop ends receives its first
\* preference.
C14_TerminatesWithinCap ==
  /\ [][dist.pc = "loop" =>
          IF DistContinues(dist.run)
            THEN dist'.pc = "loop" /\ dist'.run.round = dist.run.round + 1
            ELSE dist'.pc = "returned" /\ dist'.run = dist.run]_vars
  /\ [](dist.run.round <= MAX_ROUNDS)
  /\ [](dist.pc = "returned" =>
          /\ Len(dist.result) = Len(dist.pixelColors)
          /\ \A r \in 1..dist.run.rows :
               /\ Len(dist.result[r]) = Len(dist.pixelColors[r])
               /\ \A c \in 1..dist.run.cols :
                    LET pixel == dist.run.pixelPrefs[(r - 1) * dist.run.cols + c]
                    IN /\ dist.result[r][c] \in AvailableHexes(dist.palette) \cup {CLEAR}
                       /\ IsNull(pixel.assigned)
                            => dist.result[r][c] = FirstPreference(pixel.preferences))

\* the loop has stopped after its tenth round with a cell unassigned, and the returned grid
\* holds the cell's first preference
C14_StragglerGotFirstPreference ==
  /\ dist.pc = "returned"
  /\ dist.run.round = MAX_ROUNDS
  /\ \E k \in DOMAIN dist.run.pixelPrefs :
       /\ IsNull(dist.run.pixelPrefs[k].assigned)
       /\ dist.result[dist.run.pixelPrefs[k].row + 1][dist.run.pixelPrefs[k].col + 1]
            = FirstPreference(dist.run.pixelPrefs[k].preferences)

-----------------------------------------------------------------------------
(* Properties of image import and project load *)

\* C15: when a second image import is triggered while the decode of a first is pending, a
\* superseded decode that completes after the newer one is discarded: it neither replaces
\* the live grid nor adds a history entry.
C15_StaleDecodeDiscarded ==
  [][\A k \in 1..MaxPending, confirmed \in BOOLEAN :
       (imageDecoded(k, confirmed) /\ pendingDecodes[k].superseded)
         => /\ grid' = grid
            /\ history' = history
            /\ historyIndex' = historyIndex]_vars


-----------------------------------------------------------------------------
(* Properties of project load, project save and palette import *)

\* the file is a project document whose palette array has no clear entry
PaletteLacksClear(data) ==
  /\ ~LoadRejected(data)
  /\ ~IsNull(data.palette)
  /\ \A i \in DOMAIN Val(data.palette) :
       /\ "string" \in DOMAIN Val(data.palette)[i] => Val(data.palette)[i].string # CLEAR
       /\ "hex" \in DOMAIN Val(data.palette)[i] => Val(data.palette)[i].hex # CLEAR

\* C16: a load of a project file that fails (the text does not parse, rows, columns or
\* cells is missing, or an error is raised while the file is processed) leaves the grid,
\* the history log, the pointer, the palette and the row and column inputs as they were.
C16_FailedLoadChangesNothing ==
  [][\A data \in Files :
       (handleFileLoad(data) /\ (LoadRejected(data) \/ LoadThrows(data)))
         => /\ grid' = grid
            /\ history' = history
            /\ historyIndex' = historyIndex
            /\ palette' = palette
            /\ rowInput' = rowInput
            /\ colInput' = colInput]_vars

\* C17: loading a well-formed project file whose palette array has no clear entry installs
\* a clear entry followed by the entries of the file, in order.
C17_ClearSynthesizedOnLoad ==
  [][\A data \in Files :
       (handleFileLoad(data) /\ PaletteLacksClear(data))
         => /\ Len(palette') = Len(Val(data.palette)) + 1
            /\ palette'[1].hex = CLEAR
            /\ Tail(palette') = normalizePalette(Val(data.palette))]_vars


\* the colour keys of a palette, in order
ColorKeys(pal) == [i \in DOMAIN pal |-> pal[i].hex]

\* C18: loading the document saveGrid has just exported yields a live grid equal to the
\* exported grid and a palette with the same colour keys in the same order, the clear
\* entry occurring exactly once.
C18_SaveLoadRoundTrip ==
  [][(downloaded = Some(exportedDocument) /\ handleFileLoad(exportedDocument))
       => /\ grid' = grid
          /\ ColorKeys(palette') = ColorKeys(palette)
          /\ Cardinality({i \in DOMAIN palette' : palette'[i].hex = CLEAR}) = 1]_vars

\* C19: the palette contains exactly one clear entry and no two entries share a colour key.
C19_OneClearUniqueKeys ==
  /\ Cardinality({i \in DOMAIN palette : palette[i].hex = CLEAR}) = 1
  /\ \A i, j \in DOMAIN palette : palette[i].hex = palette[j].hex => i = j


-----------------------------------------------------------------------------
(* Properties of cancellation *)

\* C20: when Escape is pressed during a drag-move or a duplicate staging, neither the
\* Escape, nor a pointer movement after it, nor the pointer-up that follows changes the
\* grid, the history log or the pointer.
C20_CancelLeavesNoTrace ==
  [][(\/ escape /\ (isDraggingSelection \/ isDuplicateDragging)
      \/ cancelPending /\ handleMouseUp
      \/ cancelPending /\ \E cell \in CancelCells : handleMouseEnter(cell[1], cell[2]))
       => /\ grid' = grid
          /\ history' = history
          /\ historyIndex' = historyIndex]_vars


-----------------------------------------------------------------------------
(* Properties of undo and redo at the ends of the log *)

\* C21: undo with the pointer at 0 and redo with the pointer at the last entry of the log
\* change nothing: grid, log, pointer, the mirror of the pointer and the suppress flag
\* keep their values.
C21_UndoRedoAtEndsNoOp ==
  [][((undo /\ historyIndex = 0) \/ (redo /\ historyIndex = Len(history) - 1))
       => /\ grid' = grid
          /\ history' = history
          /\ historyIndex' = historyIndex
          /\ historyIndexRef' = historyIndexRef
          /\ isUndoRedo' = isUndoRedo]_vars

\* an undo has run with the pointer at 0 on a log of several snapshots, and the suppress
\* flag is down
C21_UndoAtStartHappened ==
  /\ lastOp = "undo"
  /\ historyIndex = 0
  /\ Len(history) >= 2
  /\ ~isUndoRedo


-----------------------------------------------------------------------------
(* Properties of drag-move, selection and duplicate gestures *)

\* cell (r, c) lies in the rectangle
InRect(rect, r, c) ==
  /\ r >= rect.startRow /\ r <= rect.endRow
  /\ c >= rect.startCol /\ c <= rect.endCol

\* the pointer-up that ends a drag-move with selection and preview both present, the
\* preview having the size of the selection
CommitsDrag ==
  /\ handleMouseUp
  /\ isDraggingSelection /\ ~IsNull(selection) /\ ~IsNull(dragPreview)
  /\ Val(dragPreview).endRow - Val(dragPreview).startRow
       = Val(selection).endRow - Val(selection).startRow
  /\ Val(dragPreview).endCol - Val(dragPreview).startCol
       = Val(selection).endCol - Val(selection).startCol

C23_SelectionNormalized ==
  IsNull(selection)
    \/ /\ Val(selection).startRow <= Val(selection).endRow
       /\ Val(selection).startCol <= Val(selection).endCol


-----------------------------------------------------------------------------
(* Properties of the selection under structural changes *)

\* C24: the selection, if present, lies within the grid: every cell it names is a cell of
\* the grid.
C24_SelectionWithinGrid ==
  IsNull(selection)
    \/ \A r \in Val(selection).startRow..Val(selection).endRow,
          c \in Val(selection).startCol..Val(selection).endCol : CellRendered(grid, r, c)


\* C25: a deletion of rows or columns that removes a cell of the selection leaves the
\* selection cleared, from the header menu (deleteRow, deleteColumn) as from the selection
\* menu (deleteRows, deleteColumns).
C25_DeletionConsumesSelection ==
  [][(/\ ~IsNull(selection)
      /\ \/ /\ Len(grid') < Len(grid)
            /\ \/ \E index \in Val(selection).startRow..Val(selection).endRow :
                    deleteRow(index)
               \/ \E index \in {0, 1}, count \in {1, 2} :
                    /\ deleteRows(index, count)
                    /\ index <= Val(selection).endRow
                    /\ index + count > Val(selection).startRow
         \/ /\ Len(grid'[1]) < Len(grid[1])
            /\ \/ \E index \in Val(selection).startCol..Val(selection).endCol :
                    deleteColumn(index)
               \/ \E index \in {0, 1}, count \in {1, 2} :
                    /\ deleteColumns(index, count)
                    /\ index <= Val(selection).endCol
                    /\ index + count > Val(selection).startCol)
       => IsNull(selection')]_vars


\* the number of gesture modes that are active: painting, selecting, dragging, duplicating
ActiveModes ==
  (IF isPainting THEN 1 ELSE 0) + (IF isSelecting THEN 1 ELSE 0)
    + (IF isDraggingSelection THEN 1 ELSE 0) + (IF isDuplicateDragging THEN 1 ELSE 0)

\* C26: at most one of the gesture modes painting, selecting, dragging and duplicating is
\* active, and dragging and duplicating start only from a state with a selection and no
\* gesture in progress.
C26_OneGestureMode ==
  /\ [](ActiveModes <= 1)
  /\ [][((isDraggingSelection' /\ ~isDraggingSelection)
           \/ (isDuplicateDragging' /\ ~isDuplicateDragging))
          => (~IsNull(selection) /\ ActiveModes = 0)]_vars


\* C27: while a duplicate is staged, a pointer-down on cell (r, c) writes the payload
\* captured by Shift+D with its top-left cell at (r, c), clipped to the grid, records the
\* new grid once and ends the staging, whether or not the pointer entered (r, c) before.
C27_PlacementAtClickedCell ==
  [][\A cell \in CancelCells, shiftKey \in BOOLEAN :
       (/\ handleMouseDown(cell[1], cell[2], shiftKey)
        /\ isDuplicateDragging /\ ~IsNull(duplicatePreview) /\ ~IsNull(duplicateClipboard))
         => LET payload == Val(duplicateClipboard)
            IN /\ Len(grid') = Len(grid)
               /\ \A r \in 1..Len(grid) :
                    /\ Len(grid'[r]) = Len(grid[r])
                    /\ \A c \in 1..Len(grid[r]) :
                         grid'[r][c] =
                           IF /\ r - 1 >= cell[1] /\ r - 1 < cell[1] + payload.rows
                              /\ c - 1 >= cell[2] /\ c - 1 < cell[2] + payload.cols
                             THEN payload.content[r - cell[1]][c - cell[2]]
                             ELSE grid[r][c]
               /\ committed' = <<grid'>>
               /\ ~isDuplicateDragging']_vars


\* C28: while a drag-move or a duplicate is staged, a pointer-move over a cell changes only
\* the staged preview rectangle: the grid, the history log and its pointer, the selection
\* and the clipboard are unchanged and nothing is recorded.
C28_MoveChangesOnlyPreview ==
  [][\A cell \in CancelCells :
       (handleMouseEnter(cell[1], cell[2]) /\ (isDraggingSelection \/ isDuplicateDragging))
         => /\ UNCHANGED <<grid, history, historyIndex, historyIndexRef, selection, clipboard>>
            /\ committed' = <<>>]_vars


-----------------------------------------------------------------------------
(* Properties of the clipboard *)

C30_ClipboardChangesOnlyOnCopy ==
  [][~IsNull(clipboard) =>
       \/ clipboard' = clipboard
       \/ /\ lastOp' = "copySelection"
          /\ ~IsNull(selection)
          /\ clipboard' = Some(ExtractCells(grid, Val(selection).startRow,
                                            Val(selection).startCol,
                                            Val(selection).endRow,
                                            Val(selection).endCol))]_vars

\* the copied cells were cleared in the grid and undone, and the clipboard still holds
\* the red cell
C30_ClipboardOutlivedChanges ==
  /\ lastOp = "undo"
  /\ IsNull(selection)
  /\ clipboard = Some(<<<<RED, CLEAR>>>>)
  /\ gridBefore[1][1] = CLEAR /\ grid[1][1] = RED


-----------------------------------------------------------------------------
(* Properties of the resize *)

\* the grid has newRows rows of newCols cells, each the cell of old at the same place
\* where old has one and Clear elsewhere
IsResizeOf(new, old, newRows, newCols) ==
  /\ Len(new) = newRows
  /\ \A r \in 1..newRows :
       /\ Len(new[r]) = newCols
       /\ \A c \in 1..newCols :
            new[r][c] = IF r <= Len(old) /\ c <= Len(old[r]) THEN old[r][c] ELSE CLEAR

-----------------------------------------------------------------------------
(* Properties of the palette editor *)

-----------------------------------------------------------------------------
(* Properties of the supply bookkeeping *)

\* C33: whatever number of clear or reserved cells the grid holds, the quantities of the
\* clear and the reserved palette entries cause neither an over-limit nor an
\* approaching-limit warning.
C33_SpecialQuantitiesInert ==
  LET stats == DominoStats(grid, palette)
  IN /\ CLEAR \notin stats.overLimit \cup stats.approachingLimit
     /\ DISNEY \notin stats.overLimit \cup stats.approachingLimit


-----------------------------------------------------------------------------
(* Properties of clear cells and of the supply counters *)

\* the cells of the raster
RasterCells == (1..dist.run.rows) \X (1..dist.run.cols)

\* the raster cell is clear (or carries the transparent marker)
SourceIsClear(rc) == dist.pixelColors[rc[1]][rc[2]] \in {CLEAR, "transparent"}

SwappedCells(g, a, b) ==
  LET cols == Len(g[1])
      At(k) == g[((k - 1) \div cols) + 1][((k - 1) % cols) + 1]
  IN [r \in 1..Len(g) |->
        [c \in 1..cols |->
           LET k == (r - 1) * cols + c
           IN IF k = a THEN At(b) ELSE IF k = b THEN At(a) ELSE g[r][c]]]

NoEquidistantCells ==
  \A rc1 \in RasterCells, rc2 \in RasterCells :
    (rc1 # rc2 /\ ~SourceIsClear(rc1) /\ ~SourceIsClear(rc2)) =>
      \A hex \in AvailableHexes(dist.palette) :
        colorDistance(dist.pixelColors[rc1[1]][rc1[2]], hex)
          # colorDistance(dist.pixelColors[rc2[1]][rc2[2]], hex)

UnassignedCells(st) == {k \in DOMAIN st.pixelPrefs : IsNull(st.pixelPrefs[k].assigned)}

\* C36: every round of distributeColorsEvenly that starts with an unassigned cell ends
\* with strictly fewer unassigned cells, and every round that leaves a cell unassigned
\* drives the remaining supply of at least one colour to zero.
C36_RoundsMakeProgress ==
  [][DistIterate =>
       /\ Cardinality(UnassignedCells(dist'.run)) < Cardinality(UnassignedCells(dist.run))
       /\ UnassignedCells(dist'.run) # {} =>
            \E hex \in DOMAIN dist.run.remainingAvailability :
              /\ dist.run.remainingAvailability[hex] > 0
              /\ dist'.run.remainingAvailability[hex] = 0]_vars

\* a round has run, a cell is still unassigned, and a colour that had supply has none left
C36_RoundLeftCellsBehind ==
  /\ dist.pc = "loop"
  /\ dist.run.round >= 1
  /\ UnassignedCells(dist.run) # {}
  /\ \E hex \in DOMAIN dist.run.remainingAvailability :
       /\ Availability(dist.palette)[hex] > 0
       /\ dist.run.remainingAvailability[hex] = 0


\* the cells a round assigns the colour hex from the supply: unassigned before the round
\* with a colour still available, assigned hex after it
ServedCells(before, after, hex) ==
  {k \in UnassignedCells(before) :
     /\ BestAvailable(before.pixelPrefs[k].preferences, before.remainingAvailability) # 0
     /\ after.pixelPrefs[k].assigned = Some(hex)}

\* C38: throughout distributeColorsEvenly the remaining supply of every colour stays
\* >= 0; a round lowers the counter of a colour of finite quantity by exactly the number
\* of cells it assigns that colour from the supply, and the cells assigned with no colour
\* available lower no counter.
C38_SupplyCountersExact ==
  [][DistIterate =>
       \A hex \in DOMAIN dist.run.remainingAvailability :
         /\ dist.run.remainingAvailability[hex] >= 0
         /\ dist'.run.remainingAvailability[hex] >= 0
         /\ dist.run.remainingAvailability[hex] # INFINITY =>
              dist'.run.remainingAvailability[hex] =
                dist.run.remainingAvailability[hex]
                  - Cardinality(ServedCells(dist.run, dist'.run, hex))]_vars

\* a round assigned a cell a colour whose supply was already used up: more cells hold the
\* colour than the palette supplies, and its counter stands at zero
C38_FallbackLeftCounterAtZero ==
  /\ dist.pc = "loop"
  /\ \E hex \in DOMAIN dist.run.remainingAvailability :
       /\ Availability(dist.palette)[hex] >= 1
       /\ dist.run.remainingAvailability[hex] = 0
       /\ Cardinality({k \in DOMAIN dist.run.pixelPrefs :
                         dist.run.pixelPrefs[k].assigned = Some(hex)})
            > Availability(dist.palette)[hex]


-----------------------------------------------------------------------------
(* Properties of the first log entry *)

\* C37: in every state with a non-empty log the first log entry is the grid of the
\* initialization, the clear grid of 5 rows and 8 columns.
C37_FirstEntryIsInitialGrid ==
  Len(history) > 0 => history[1] = createEmptyGrid(5, 8)

\* C37, amended: the first log entry stays what it is, from the initialization on, until
\* the log is full: a step replaces it only by recording a snapshot in a log of
\* MAX_HISTORY entries with the pointer on the last one, and the first entry is then the
\* former second entry.
C37_FirstEntryKeptUntilEviction ==
  [][Len(history) > 0 =>
       \/ history'[1] = history[1]
       \/ /\ Len(history) = MAX_HISTORY
          /\ historyIndexRef = MAX_HISTORY - 1
          /\ committed' # <<>>
          /\ history' = Append(Tail(history), committed'[1])]_vars

\* the log is full and the grid of the initialization has been evicted from it
C37_InitialGridEvicted ==
  /\ Len(history) = MAX_HISTORY
  /\ historyIndex = MAX_HISTORY - 1
  /\ history[1] = createEmptyGrid(1, 8)


-----------------------------------------------------------------------------
(* Properties of the cells as references to the palette *)

\* C39: after any sequence of operations every grid cell holds clear, the reserved value
\* or a colour that is in the current palette.
C39_CellsReferToPalette ==
  \A r \in DOMAIN grid : \A c \in DOMAIN grid[r] :
    grid[r][c] \in {CLEAR, DISNEY} \cup {palette[i] : i \in DOMAIN palette}


-----------------------------------------------------------------------------
(* Properties of the grid a project file installs *)

\* C40: a load of a project file that is accepted installs a rectangular grid of at least
\* one row and one column whose numbers of rows and columns are the rows and columns the
\* file declares, so that the row and column inputs agree with the grid.
C40_LoadInstallsDeclaredGrid ==
  [][\A data \in Files :
       (handleFileLoad(data) /\ ~LoadRejected(data))
         => /\ Len(grid') >= 1
            /\ IsRectangular(grid')
            /\ Len(grid'[1]) >= 1
            /\ Len(grid') = data.rows
            /\ Len(grid'[1]) = data.columns
            /\ rowInput' = Len(grid')
            /\ colInput' = Len(grid'[1])]_vars

====
